---- MODULE Spec2Model ----
(***************************************************************************)
(* A state-machine model of the lifemaxxer bot: the quote store            *)
(* (src/bot/quote_store.py) and the content generator                      *)
(* (src/bot/generator.py).                                                 *)
(*                                                                         *)
(* Texts are sequences of character tokens.  One-character tokens stand    *)
(* for themselves; "TAB", "EM", "EN", "RSQUO", "LDQUO" and "RDQUO" stand   *)
(* for the tab, the em dash, the en dash and the curly quote characters.   *)
(***************************************************************************)
EXTENDS Integers, Sequences, FiniteSets, TLC

\* ------------------------------------------------------------------ bounds

\* Most records a store holds in the model (ingest is disabled beyond it).
MaxRecords == 2
\* The wall clock runs from 0 to MaxClock ticks.
MaxClock == 2
\* cooldown_days ranges over 0 .. MaxCooldown.
MaxCooldown == 1
\* Most mark_posted calls in a run.
MaxMarks == 2

\* ------------------------------------------------------------------- texts

Whitespace == {" ", "TAB", "NL", "CR"}

\* str.lower() on one character.
LowerChar(c) == IF c = "A" THEN "a" ELSE IF c = "B" THEN "b" ELSE c

\* text.replace("—", "-").replace("–", "-") on one character.
DashChar(c) == IF c \in {"EM", "EN"} THEN "-" ELSE c

\* str.lower()
Lower(s) == [i \in 1..Len(s) |-> LowerChar(s[i])]

\* .replace("—", "-").replace("–", "-")
ReplaceDashes(s) == [i \in 1..Len(s) |-> DashChar(s[i])]

RECURSIVE LStrip(_)
LStrip(s) == IF s # << >> /\ Head(s) \in Whitespace THEN LStrip(Tail(s)) ELSE s

RECURSIVE RStrip(_)
RStrip(s) ==
    IF s # << >> /\ s[Len(s)] \in Whitespace
    THEN RStrip(SubSeq(s, 1, Len(s) - 1))
    ELSE s

\* str.strip()
Strip(s) == LStrip(RStrip(s))

\* re.sub(r"\s+", " ", s): every maximal run of whitespace becomes one space.
RECURSIVE CollapseWs(_)
CollapseWs(s) ==
    IF s = << >> THEN << >>
    ELSE IF Head(s) \in Whitespace
         THEN << " " >> \o CollapseWs(LStrip(s))
         ELSE << Head(s) >> \o CollapseWs(Tail(s))

\* _normalize_text: strip, lower, em/en dash to hyphen, collapse whitespace.
normalize_text(text) ==
    CollapseWs(ReplaceDashes(Lower(Strip(text))))

\* -------------------------------------------------------------- timestamps

\* Character codes of the characters that follow the seconds in a timestamp.
PLUS == 43
DOT == 46
ZED == 90
DigitCode(d) == 48 + d

\* The clock ticks in half days.  datetime.isoformat() of the instant t ticks
\* after the clock's origin: the fixed-width date and time (one number here,
\* the whole days), then the fraction, which isoformat omits when it is zero
\* (".5" otherwise), then the UTC offset ("+00:00").
utc_iso(t) ==
    IF t % 2 = 0
    THEN << t \div 2, PLUS >>
    ELSE << t \div 2, DOT, DigitCode(5), PLUS >>

\* datetime.fromisoformat() of a timestamp utc_iso wrote, in ticks.
fromisoformat(s) ==
    IF Len(s) = 2 THEN s[1] * 2 ELSE s[1] * 2 + 1

\* timedelta(days=cooldown_days), in ticks.
timedelta_days(cd) == cd * 2

\* Python's str comparison a < b: lexicographic by code point.
RECURSIVE StrLess(_, _)
StrLess(a, b) ==
    IF b = << >> THEN FALSE
    ELSE IF a = << >> THEN TRUE
    ELSE IF Head(a) # Head(b) THEN Head(a) < Head(b)
    ELSE StrLess(Tail(a), Tail(b))

\* The key of the fallback sort for a record never posted: "9999-12-31T00:00:00Z".
NeverKey == << 9999, ZED >>

\* ------------------------------------------------------------- quote store

\* Two invocations of the program; the sequential specifications use Main only.
Procs == {1, 2}
Main == 1

\* A file is absent, or holds lines: the header line, a row (one record), or a
\* hole (a line that is not a complete row).
Absent == [exists |-> FALSE, lines |-> << >>]
File(lines) == [exists |-> TRUE, lines |-> lines]
CSV_HEADER == [kind |-> "header"]
Hole == [kind |-> "hole"]

\* The characters csv.writer quotes a field for: the delimiter, the quote
\* character and the characters of the line terminator.
CsvSpecial == {",", "DQUOTE", "CR", "NL"}

\* The quote characters of a field doubled.
RECURSIVE CsvDouble(_)
CsvDouble(f) ==
    IF f = << >> THEN << >>
    ELSE IF Head(f) = "DQUOTE" THEN << "DQUOTE", "DQUOTE" >> \o CsvDouble(Tail(f))
    ELSE << Head(f) >> \o CsvDouble(Tail(f))

\* A writer that never quotes a field.
csv_field_unquoted(f) == f

\* One field as csv.writer writes it (QUOTE_MINIMAL, doublequote).
csv_field(f) ==
    IF \E i \in 1..Len(f) : f[i] \in CsvSpecial
    THEN << "DQUOTE" >> \o CsvDouble(f) \o << "DQUOTE" >>
    ELSE f

\* The fields joined by the delimiter.
RECURSIVE CsvJoin(_)
CsvJoin(fields) ==
    IF fields = << >> THEN << >>
    ELSE IF Len(fields) = 1 THEN csv_field(Head(fields))
    ELSE csv_field(Head(fields)) \o << "," >> \o CsvJoin(Tail(fields))

\* The decimal numerals; a numeral is one character here.
NumTokens == [n \in 0..63 |-> ToString(n)]

\* The field of a number, and of a timestamp.
NumField(n) == << NumTokens[n] >>
StampField(stamp) == [i \in 1..Len(stamp) |-> NumTokens[stamp[i]]]

\* The number of a field (-1 for a field that holds no numeral), and the
\* timestamp.
NumOf == [t \in { NumTokens[n] : n \in 0..63 } |-> CHOOSE n \in 0..63 : NumTokens[n] = t]
FieldNum(f) ==
    IF f = << >> THEN 0
    ELSE IF f[1] \in DOMAIN NumOf THEN NumOf[f[1]]
    ELSE -1
FieldStamp(f) == [i \in 1..Len(f) |-> FieldNum(<< f[i] >>)]

\* writer.writerow({k: r.get(k, "") for k in CSV_HEADER}): the line of a
\* record, without its terminator.
csv_writerow(r) ==
    CsvJoin(<< NumField(r.id), r.text, r.author, << r.source >>,
               StampField(r.added_at), StampField(r.last_posted_at),
               NumField(r.times_posted) >>)

\* The reader of the csv module over one line, from its i-th character on:
\* st is its state ("record" at the start of the line, "start" at the start
\* of a field, "field" in an unquoted field, "quoted" in a quoted one, "qq"
\* after a quote character in a quoted field), f the field so far, fs the
\* fields done.
RECURSIVE CsvScan(_, _, _, _, _)
CsvScan(line, i, st, f, fs) ==
    IF i > Len(line)
    THEN IF st = "record" THEN fs ELSE Append(fs, f)
    ELSE LET c == line[i]
         IN IF st \in {"record", "start"}
            THEN IF c = "DQUOTE" THEN CsvScan(line, i + 1, "quoted", << >>, fs)
                 ELSE IF c = "," THEN CsvScan(line, i + 1, "start", << >>, Append(fs, << >>))
                 ELSE IF c \in {"CR", "NL"}
                      THEN IF st = "record" THEN fs ELSE Append(fs, << >>)
                 ELSE CsvScan(line, i + 1, "field", << c >>, fs)
            ELSE IF st = "field"
            THEN IF c = "," THEN CsvScan(line, i + 1, "start", << >>, Append(fs, f))
                 ELSE IF c \in {"CR", "NL"} THEN Append(fs, f)
                 ELSE CsvScan(line, i + 1, "field", Append(f, c), fs)
            ELSE IF st = "quoted"
            THEN IF c = "DQUOTE" THEN CsvScan(line, i + 1, "qq", f, fs)
                 ELSE CsvScan(line, i + 1, "quoted", Append(f, c), fs)
            ELSE IF c = "DQUOTE" THEN CsvScan(line, i + 1, "quoted", Append(f, c), fs)
                 ELSE IF c = "," THEN CsvScan(line, i + 1, "start", << >>, Append(fs, f))
                 ELSE IF c \in {"CR", "NL"} THEN Append(fs, f)
                 ELSE CsvScan(line, i + 1, "field", Append(f, c), fs)

\* The fields of a line.
csv_fields(line) == CsvScan(line, 1, "record", << >>, << >>)

\* The row csv.DictReader makes of a line under the header of the store.
csv_row(line) ==
    LET fs == csv_fields(line)
        Field(i) == IF i <= Len(fs) THEN fs[i] ELSE << >>
    IN [id |-> FieldNum(Field(1)), text |-> Field(2), author |-> Field(3),
        source |-> IF Field(4) = << >> THEN "" ELSE Field(4)[1],
        added_at |-> FieldStamp(Field(5)), last_posted_at |-> FieldStamp(Field(6)),
        times_posted |-> FieldNum(Field(7))]

Row(r) == [kind |-> "row", line |-> csv_writerow(r)]

VARIABLES
    fs_store,   \* the store file: Absent, or its lines (CSV_HEADER, rows)
    fs_tmp,     \* the file at store_path + ".tmp", likewise
    records,    \* records[p]: QuoteStore.records of invocation p
    by_norm,    \* by_norm[p]: QuoteStore._by_norm, normalized text -> index into records[p]
    loaded,     \* loaded[p]: QuoteStore._loaded
    now,        \* the wall clock, in ticks
    next_id,    \* the next fresh id (uuid4)
    ret,        \* what the last store call was given and returned
    calls,      \* history: id -> number of mark_posted calls on it and the time of the last
    pc,         \* pc[p]: where invocation p stands in its store call
    fd,         \* fd[p]: the file p's open handle writes to, and its position
    pending,    \* history: the store file before p's _persist, and the table p writes
    serial      \* history: normalized text -> mark_posted calls, over all calls begun

storeVars == << fs_store, fs_tmp, records, by_norm, loaded, now, next_id, ret, calls >>
procVars == << pc, fd, pending, serial >>

VARIABLES
    g_pc,        \* where generate stands: "idle", the engine being tried, "done"
    g_engine,    \* preferred_engine, stripped and lower-cased
    g_limit,     \* config.max_length
    g_attempt,   \* the attempt counter of _try_provider's loop
    g_calls,     \* the engines invoked in this request, in order
    g_returned,  \* what each invoked engine returned (empty for None)
    g_out,       \* the text generate returned
    g_tries,     \* history: the outcome of each provider call of this request
    g_waits      \* history: the backoff waits of this request, in quarter seconds

genVars == << g_pc, g_engine, g_limit, g_attempt, g_calls, g_returned, g_out,
             g_tries, g_waits >>

VARIABLES
    t_pc,        \* where post_tweet stands: "idle", "called", "try", "done"
    t_text,      \* its text argument
    t_dry,       \* its dry_run argument
    t_attempt,   \* the attempt counter of its loop
    t_api,       \* history: the text given to create_tweet and its outcome, per attempt
    t_waits,     \* history: the seconds slept in this call
    t_hdrs,      \* history: the reset header and the attempt index of each rate-limit error
    t_result,    \* what it returned: NoId for None, or the tweet id
    t_last,      \* last_error: "none", "rate" (TooManyRequests) or "other"
    c_pc,        \* where the CLI operation stands
    c_op,        \* the subcommand
    c_dry,       \* use_dry_run
    c_limit,     \* config.max_length
    c_tweet,     \* the text the operation produced
    c_pick,      \* the record pick_for_post returned, as an index; 0 for None
    c_rec,       \* history: that record as it was when it was picked
    c_out,       \* the lines printed so far
    c_sent,      \* history: the calls made to the posting collaborator
    c_id,        \* tweet_id
    c_marked     \* history: the indices given to mark_posted by this operation

tweetVars == << t_pc, t_text, t_dry, t_attempt, t_api, t_waits, t_hdrs, t_result, t_last >>
cliVars == << c_pc, c_op, c_dry, c_limit, c_tweet, c_pick, c_rec, c_out, c_sent, c_id,
             c_marked >>
postVars == << tweetVars, cliVars >>

\* The recent-posts list, kept across invocations.
VARIABLES
    recent,      \* the stored recent-posts list, oldest entry first
    r_log,       \* history: every text posted successfully, in posting order
    r_fails      \* history: the number of posts that did not succeed

recentVars == << recent, r_log, r_fails >>

\* The cadence counter, kept across invocations, and the batch routine.
VARIABLES
    cadence,     \* the stored counter: single posts since the last batch
    k_last,      \* history: how the last post ended, or "batch"
    k_prev,      \* history: the counter before that
    b_pc,        \* "idle", or "collect" while the batch routine runs
    b_calls,     \* generation calls made by the running batch routine
    b_items,     \* items collected by the running batch routine
    b_emitted    \* history: the batches emitted, each with its number of calls

cadVars == << cadence, k_last, k_prev, b_pc, b_calls, b_items, b_emitted >>

\* The locks of the state files, and the invocations updating the files.
VARIABLES
    lk,          \* lk[f]: the invocation holding the lock of state file f, or 0
    l_exists,    \* l_exists[f]: state file f has been written
    l_pc,        \* l_pc[p]: where invocation p stands in its update
    l_file,      \* l_file[p]: the state file p is updating
    l_local,     \* l_local[p]: what p has read, then mutated
    l_round,     \* l_round[p]: the updates p has begun
    l_commits    \* history: l_commits[f]: the texts whose update of f was written

lockVars == << lk, l_exists, l_pc, l_file, l_local, l_round, l_commits >>

\* fetch_quote_rotating.
VARIABLES
    f_pc,        \* "idle", "loop" (in the for loop), "done", "raised"
    f_order,     \* sources after random.shuffle
    f_tried,     \* history: the sources whose fetch was called, with what it returned
    f_ret        \* what fetch_quote_rotating returned

fetchVars == << f_pc, f_order, f_tried, f_ret >>

\* The poll loops of AIImageClient.
VARIABLES
    i_pc,        \* "idle", "poll" (in the for loop), "done"
    i_kind,      \* "horde" (_await_and_fetch) or "comfy" (_generate_comfy)
    i_budget,    \* the iterations of the for loop: 60, or comfy_timeout_s
    i_polls,     \* the status requests made
    i_waits,     \* the time.sleep(1) calls made
    i_last,      \* history: what the last status request brought
    i_ret        \* what the method returned: "image" or "none"

pollVars == << i_pc, i_kind, i_budget, i_polls, i_waits, i_last, i_ret >>

\* A call of _format_fact_out.
VARIABLES
    n_raw,       \* the text it was given
    n_out        \* the text it returned

normVars == << n_raw, n_out >>

ioVars == << fetchVars, pollVars, normVars >>

sideVars == << cadVars, lockVars, ioVars >>

\* The two state files, each with its own lock file, and what a reader
\* takes for a file that is not there.
StateFiles == {"recent", "cadence"}
StateDefault == [recent |-> << >>, cadence |-> 0]

EmptyMap == << >>

\* d[k] = v, as Python's dict assignment.
DictSet(d, k, v) == (k :> v) @@ d

\* csv.DictReader over the file's lines: the first line names the fields, and a
\* following line yields a row with a "text" only under the proper header.
ReadRows(lines) ==
    IF lines = << >> \/ Head(lines).kind # "header" THEN << >>
    ELSE LET body == SelectSeq(Tail(lines), LAMBDA ln : ln.kind = "row")
             rows == [i \in 1..Len(body) |-> csv_row(body[i].line)]
         IN SelectSeq(rows, LAMBDA row : row.text # << >>)

\* The loop of _ensure_loaded: append every row and index it by its normalized text.
RECURSIVE LoadLoop(_, _, _)
LoadLoop(recs, idx, rows) ==
    IF rows = << >> THEN [records |-> recs, by_norm |-> idx]
    ELSE LoadLoop(Append(recs, Head(rows)),
                  DictSet(idx, normalize_text(Head(rows).text), Len(recs) + 1),
                  Tail(rows))

\* _ensure_loaded that forgets it has loaded.
reads_file_always(p) == TRUE

\* if self._loaded: return  -- _ensure_loaded goes to the file only once
reads_file(p) == ~loaded[p]

\* The memory of invocation p after _ensure_loaded.
ensure_loaded(p) ==
    IF ~reads_file(p) THEN [records |-> records[p], by_norm |-> by_norm[p]]
    ELSE IF ~fs_store.exists THEN [records |-> << >>, by_norm |-> EmptyMap]
    ELSE LoadLoop(records[p], by_norm[p], ReadRows(fs_store.lines))

\* The store file after _ensure_loaded: a missing file is created with the header.
ensure_loaded_file(p) ==
    IF reads_file(p) /\ ~fs_store.exists THEN File(<< CSV_HEADER >>) ELSE fs_store

\* What _persist writes: the header, then every record.
Table(recs) == File(<< CSV_HEADER >> \o [i \in 1..Len(recs) |-> Row(recs[i])])

\* One candidate of ingest_quote_records, without the duplicate check.
ingest_one_nocheck(acc, rec_in, source, t) ==
    LET q == rec_in.text
        norm == normalize_text(q)
        rec == [id |-> acc.next_id, text |-> Strip(q), author |-> rec_in.author,
                source |-> source, added_at |-> utc_iso(t),
                last_posted_at |-> << >>, times_posted |-> 0]
    IN IF Strip(q) = << >> THEN acc
       ELSE [acc EXCEPT !.records = Append(@, rec),
                        !.by_norm = DictSet(@, norm, Len(acc.records) + 1),
                        !.added = @ + 1,
                        !.next_id = @ + 1]

\* One candidate of ingest_quote_records, a blank one counted as a duplicate.
ingest_one_blankdupe(acc, rec_in, source, t) ==
    LET q == rec_in.text
        norm == normalize_text(q)
        rec == [id |-> acc.next_id, text |-> Strip(q), author |-> rec_in.author,
                source |-> source, added_at |-> utc_iso(t),
                last_posted_at |-> << >>, times_posted |-> 0]
    IN IF Strip(q) = << >> \/ norm \in DOMAIN acc.by_norm THEN [acc EXCEPT !.dupes = @ + 1]
       ELSE [acc EXCEPT !.records = Append(@, rec),
                        !.by_norm = DictSet(@, norm, Len(acc.records) + 1),
                        !.added = @ + 1,
                        !.next_id = @ + 1]

\* One candidate of ingest_quote_records (the body of its loop).
ingest_one(acc, rec_in, source, t) ==
    LET q == rec_in.text
        norm == normalize_text(q)
        rec == [id |-> acc.next_id, text |-> Strip(q), author |-> rec_in.author,
                source |-> source, added_at |-> utc_iso(t),
                last_posted_at |-> << >>, times_posted |-> 0]
    IN IF Strip(q) = << >> THEN acc
       ELSE IF norm \in DOMAIN acc.by_norm THEN [acc EXCEPT !.dupes = @ + 1]
       ELSE [acc EXCEPT !.records = Append(@, rec),
                        !.by_norm = DictSet(@, norm, Len(acc.records) + 1),
                        !.added = @ + 1,
                        !.next_id = @ + 1]

RECURSIVE ingest_loop(_, _, _, _)
ingest_loop(acc, batch, source, t) ==
    IF batch = << >> THEN acc
    ELSE ingest_loop(ingest_one(acc, Head(batch), source, t), Tail(batch), source, t)

\* QuoteStore(): a new store instance in invocation p.
NewStore(p) ==
    /\ records' = [records EXCEPT ![p] = << >>]
    /\ by_norm' = [by_norm EXCEPT ![p] = EmptyMap]
    /\ loaded' = [loaded EXCEPT ![p] = FALSE]
    /\ ret' = [op |-> "new"]
    /\ UNCHANGED << fs_store, fs_tmp, now, next_id, calls, procVars, genVars, recentVars, sideVars, postVars >>

\* ingest_quote_records(records, source), _persist included.
ingest_quote_records(p, batch, source) ==
    \E mem \in { ensure_loaded(p) } :
    \E out \in { ingest_loop([records |-> mem.records, by_norm |-> mem.by_norm,
                              added |-> 0, dupes |-> 0, next_id |-> next_id],
                             batch, source, now) } :
       /\ Len(out.records) <= MaxRecords
       /\ records' = [records EXCEPT ![p] = out.records]
       /\ by_norm' = [by_norm EXCEPT ![p] = out.by_norm]
       /\ loaded' = [loaded EXCEPT ![p] = TRUE]
       /\ next_id' = out.next_id
       /\ fs_store' = IF out.added > 0 THEN Table(out.records) ELSE ensure_loaded_file(p)
       /\ fs_tmp' = IF out.added > 0 THEN Absent ELSE fs_tmp
       /\ calls' = [i \in 1..(out.next_id - 1) |->
                        IF i \in DOMAIN calls THEN calls[i] ELSE [n |-> 0, at |-> -1]]
       /\ ret' = [op |-> "ingest", did_load |-> reads_file(p), batch |-> batch,
                  before |-> Len(mem.records),
                  added |-> out.added, duplicates |-> out.dupes]
       /\ UNCHANGED << now, procVars, genVars, recentVars, sideVars, postVars >>

\* The key of the fallback sort in pick_for_post.
SortKey(r) == IF r.last_posted_at = << >> THEN NeverKey ELSE r.last_posted_at

\* sorted(): a stable insertion of index i into the sorted indices.
RECURSIVE SortedInsert(_, _, _)
SortedInsert(recs, sorted, i) ==
    IF sorted = << >> THEN << i >>
    ELSE IF StrLess(SortKey(recs[i]), SortKey(recs[Head(sorted)]))
         THEN << i >> \o sorted
         ELSE << Head(sorted) >> \o SortedInsert(recs, Tail(sorted), i)

RECURSIVE SortedUpTo(_, _)
SortedUpTo(recs, n) ==
    IF n = 0 THEN << >> ELSE SortedInsert(recs, SortedUpTo(recs, n - 1), n)

\* sorted(self.records, key=...): the indices of the records in sorted order.
sorted_all(recs) == SortedUpTo(recs, Len(recs))

\* The cutoff of pick_for_post at time t, in ticks.
Cutoff(cd, t) == t - timedelta_days(cd)

\* The eligible list of pick_for_post, as indices.
Eligible(recs, cd, t) ==
    { i \in 1..Len(recs) :
        \/ recs[i].last_posted_at = << >>
        \/ fromisoformat(recs[i].last_posted_at) <= Cutoff(cd, t) }

\* pick_for_post with no cooldown test: every record counts as eligible.
pick_choices_nocooldown(recs, cd, t) ==
    IF recs = << >> THEN {0} ELSE 1..Len(recs)

\* pick_for_post whose fallback takes the last of the sorted records.
pick_choices_newest(recs, cd, t) ==
    IF Eligible(recs, cd, t) # {} THEN Eligible(recs, cd, t)
    ELSE IF recs = << >> THEN {0}
    ELSE { sorted_all(recs)[Len(recs)] }

\* pick_for_post with no fallback: none when nothing is eligible.
pick_choices_nofallback(recs, cd, t) ==
    IF Eligible(recs, cd, t) # {} THEN Eligible(recs, cd, t) ELSE {0}

\* pick_for_post that prefers the eligible records posted least often.
pick_choices_leastused(recs, cd, t) ==
    IF Eligible(recs, cd, t) # {}
    THEN { i \in Eligible(recs, cd, t) :
             \A j \in Eligible(recs, cd, t) : recs[i].times_posted <= recs[j].times_posted }
    ELSE IF recs = << >> THEN {0}
    ELSE { sorted_all(recs)[1] }

\* The records pick_for_post may return, as indices; 0 stands for None.
pick_choices(recs, cd, t) ==
    IF Eligible(recs, cd, t) # {} THEN Eligible(recs, cd, t)
    ELSE IF recs = << >> THEN {0}
    ELSE { sorted_all(recs)[1] }

\* pick_for_post(cooldown_days)
pick_for_post(p, cd) ==
    \E mem \in { ensure_loaded(p) } :
    \E i \in pick_choices(mem.records, cd, now) :
        /\ records' = [records EXCEPT ![p] = mem.records]
        /\ by_norm' = [by_norm EXCEPT ![p] = mem.by_norm]
        /\ loaded' = [loaded EXCEPT ![p] = TRUE]
        /\ fs_store' = ensure_loaded_file(p)
        /\ ret' = [op |-> "pick", did_load |-> reads_file(p), cd |-> cd, idx |-> i]
        /\ UNCHANGED << fs_tmp, now, next_id, calls, procVars, genVars, recentVars, sideVars, postVars >>

RECURSIVE SumCalls(_)
SumCalls(n) == IF n = 0 THEN 0 ELSE calls[n].n + SumCalls(n - 1)

\* The mark_posted calls made so far.
TotalMarks == SumCalls(next_id - 1)

\* mark_posted that stamps added_at as well.
marked_restamped(r, t) ==
    [r EXCEPT !.last_posted_at = utc_iso(t), !.times_posted = @ + 1, !.added_at = utc_iso(t)]

\* mark_posted that counts the post and leaves last_posted_at alone.
marked_nostamp(r, t) == [r EXCEPT !.times_posted = @ + 1]

\* mark_posted that leaves times_posted alone.
marked_nocount(r, t) == [r EXCEPT !.last_posted_at = utc_iso(t)]

\* The record after mark_posted at time t.
marked(r, t) ==
    [r EXCEPT !.last_posted_at = utc_iso(t), !.times_posted = @ + 1]

\* mark_posted(rec), rec being the i-th record of the instance; _persist included.
mark_posted_call(p, i) ==
    /\ loaded[p]
    /\ i \in 1..Len(records[p])
    /\ records' = [records EXCEPT ![p][i] = marked(@, now)]
    /\ fs_store' = Table(records'[p])
    /\ fs_tmp' = Absent
    /\ calls' = [calls EXCEPT ![records[p][i].id] = [n |-> @.n + 1, at |-> now]]
    /\ ret' = [op |-> "mark", did_load |-> reads_file(p), idx |-> i]
    /\ UNCHANGED << by_norm, loaded, now, next_id, procVars, genVars, recentVars, sideVars, postVars >>

\* mark_posted(rec), as long as the run has mark_posted calls left.
mark_posted(p, i) ==
    /\ TotalMarks < MaxMarks
    /\ mark_posted_call(p, i)

\* count()
count(p) ==
    \E mem \in { ensure_loaded(p) } :
       /\ records' = [records EXCEPT ![p] = mem.records]
       /\ by_norm' = [by_norm EXCEPT ![p] = mem.by_norm]
       /\ loaded' = [loaded EXCEPT ![p] = TRUE]
       /\ fs_store' = ensure_loaded_file(p)
       /\ ret' = [op |-> "count", did_load |-> reads_file(p), n |-> Len(mem.records)]
       /\ UNCHANGED << fs_tmp, now, next_id, calls, procVars, genVars, recentVars, sideVars, postVars >>

\* The wall clock advances.
Tick ==
    /\ now < MaxClock
    /\ now' = now + 1
    /\ ret' = [op |-> "tick"]
    /\ UNCHANGED << fs_store, fs_tmp, records, by_norm, loaded, next_id, calls, procVars, genVars, recentVars, sideVars, postVars >>

\* ------------------------------------------- the store calls, step by step

NoFd == [target |-> "none", pos |-> 0]

\* _persist opening the store file itself instead of a temporary file.
persist_path_inplace == "store"

\* The file _persist opens for writing: store_path + ".tmp".
persist_path == "tmp"

RECURSIVE Holes(_)
Holes(n) == IF n <= 0 THEN << >> ELSE << Hole >> \o Holes(n - 1)

\* A write of line ln as the k-th line of a file: in place, at the end, or
\* past the end (the gap is no complete row).
WriteAt(lines, k, ln) ==
    IF k <= Len(lines) THEN [lines EXCEPT ![k] = ln]
    ELSE lines \o Holes(k - 1 - Len(lines)) \o << ln >>

\* The calls begun so far, on the texts by their normalized form.
SerialAdd(ser, recs) ==
    [k \in DOMAIN ser \cup { normalize_text(recs[i].text) : i \in 1..Len(recs) } |->
        IF k \in DOMAIN ser THEN ser[k] ELSE 0]

\* An invocation starts: QuoteStore() and _ensure_loaded.
P_Begin(p) ==
    /\ pc[p] = "idle"
    /\ \E mem \in { IF fs_store.exists
                    THEN LoadLoop(<< >>, EmptyMap, ReadRows(fs_store.lines))
                    ELSE [records |-> << >>, by_norm |-> EmptyMap] } :
          /\ records' = [records EXCEPT ![p] = mem.records]
          /\ by_norm' = [by_norm EXCEPT ![p] = mem.by_norm]
    /\ loaded' = [loaded EXCEPT ![p] = TRUE]
    /\ fs_store' = IF fs_store.exists THEN fs_store ELSE File(<< CSV_HEADER >>)
    /\ pending' = [pending EXCEPT ![p] = [before |-> fs_store', after |-> fs_store']]
    /\ pc' = [pc EXCEPT ![p] = "loaded"]
    /\ UNCHANGED << fs_tmp, now, next_id, ret, calls, fd, serial,
                    genVars, recentVars, sideVars, postVars >>

\* ingest_quote_records up to its call of _persist.
P_Ingest(p, batch, source) ==
    /\ pc[p] = "loaded"
    /\ \E out \in { ingest_loop([records |-> records[p], by_norm |-> by_norm[p],
                                 added |-> 0, dupes |-> 0, next_id |-> next_id],
                                batch, source, now) } :
          /\ Len(out.records) <= MaxRecords
          /\ out.next_id - 1 <= MaxRecords
          /\ records' = [records EXCEPT ![p] = out.records]
          /\ by_norm' = [by_norm EXCEPT ![p] = out.by_norm]
          /\ next_id' = out.next_id
          /\ calls' = [i \in 1..(out.next_id - 1) |->
                          IF i \in DOMAIN calls THEN calls[i] ELSE [n |-> 0, at |-> -1]]
          /\ serial' = SerialAdd(serial, out.records)
          /\ pc' = [pc EXCEPT ![p] = IF out.added > 0 THEN "open" ELSE "done"]
          /\ pending' = [pending EXCEPT ![p] = [before |-> fs_store,
                                                after |-> IF out.added > 0
                                                          THEN Table(out.records)
                                                          ELSE fs_store]]
    /\ UNCHANGED << fs_store, fs_tmp, loaded, now, ret, fd,
                    genVars, recentVars, sideVars, postVars >>

\* mark_posted up to its call of _persist.
P_Mark(p, i) ==
    /\ pc[p] = "loaded"
    /\ i \in 1..Len(records[p])
    /\ TotalMarks < MaxMarks
    /\ records' = [records EXCEPT ![p][i] = marked(@, now)]
    /\ calls' = [calls EXCEPT ![records[p][i].id] = [n |-> @.n + 1, at |-> now]]
    /\ serial' = [serial EXCEPT ![normalize_text(records[p][i].text)] = @ + 1]
    /\ pc' = [pc EXCEPT ![p] = "open"]
    /\ pending' = [pending EXCEPT ![p] = [before |-> fs_store, after |-> Table(records'[p])]]
    /\ UNCHANGED << fs_store, fs_tmp, by_norm, loaded, now, next_id, ret, fd,
                    genVars, recentVars, sideVars, postVars >>

\* _persist: open(tmp_path, "w") creates the file or empties it.
P_OpenTmp(p) ==
    /\ pc[p] = "open"
    /\ IF persist_path = "tmp"
       THEN fs_tmp' = File(<< >>) /\ UNCHANGED fs_store
       ELSE fs_store' = File(<< >>) /\ UNCHANGED fs_tmp
    /\ fd' = [fd EXCEPT ![p] = [target |-> persist_path, pos |-> 0]]
    /\ pc' = [pc EXCEPT ![p] = "write"]
    /\ UNCHANGED << records, by_norm, loaded, now, next_id, ret, calls, pending, serial,
                    genVars, recentVars, sideVars, postVars >>

\* _persist: the next line (the header, then the rows) goes to the open file;
\* after the last one the file is closed.
P_Write(p) ==
    /\ pc[p] = "write"
    /\ LET lines == Table(records[p]).lines
           k == fd[p].pos + 1
       IN /\ IF fd[p].target = "tmp"
             THEN fs_tmp' = File(WriteAt(fs_tmp.lines, k, lines[k])) /\ UNCHANGED fs_store
             ELSE IF fd[p].target = "store"
             THEN fs_store' = File(WriteAt(fs_store.lines, k, lines[k])) /\ UNCHANGED fs_tmp
             ELSE UNCHANGED << fs_store, fs_tmp >>
          /\ fd' = [fd EXCEPT ![p] = IF k = Len(lines) THEN NoFd ELSE [@ EXCEPT !.pos = k]]
          /\ pc' = [pc EXCEPT ![p] = IF k = Len(lines) THEN "replace" ELSE "write"]
    /\ UNCHANGED << records, by_norm, loaded, now, next_id, ret, calls, pending, serial,
                    genVars, recentVars, sideVars, postVars >>

\* _persist: os.replace(tmp_path, store_path).  The handles other invocations
\* hold follow their file; without a temporary file the call raises.
P_Replace(p) ==
    /\ pc[p] = "replace"
    /\ IF fs_tmp.exists
       THEN /\ fs_store' = fs_tmp
            /\ fs_tmp' = Absent
            /\ fd' = [q \in Procs |->
                        IF fd[q].target = "tmp" THEN [fd[q] EXCEPT !.target = "store"]
                        ELSE IF fd[q].target = "store" THEN [fd[q] EXCEPT !.target = "orphan"]
                        ELSE fd[q]]
            /\ pc' = [pc EXCEPT ![p] = "done"]
       ELSE /\ pc' = [pc EXCEPT ![p] = "failed"]
            /\ UNCHANGED << fs_store, fs_tmp, fd >>
    /\ UNCHANGED << records, by_norm, loaded, now, next_id, ret, calls, pending, serial,
                    genVars, recentVars, sideVars, postVars >>

\* The invocation ends; its memory is gone.
P_Exit(p) ==
    /\ pc[p] \in {"done", "failed", "crashed"}
    /\ pc' = [pc EXCEPT ![p] = "idle"]
    /\ records' = [records EXCEPT ![p] = << >>]
    /\ by_norm' = [by_norm EXCEPT ![p] = EmptyMap]
    /\ loaded' = [loaded EXCEPT ![p] = FALSE]
    /\ UNCHANGED << fs_store, fs_tmp, now, next_id, ret, calls, fd, pending, serial,
                    genVars, recentVars, sideVars, postVars >>

\* The process stops in the middle of a store call.
P_Crash(p) ==
    /\ pc[p] \in {"loaded", "open", "write", "replace"}
    /\ pc' = [pc EXCEPT ![p] = "crashed"]
    /\ fd' = [fd EXCEPT ![p] = NoFd]
    /\ UNCHANGED << fs_store, fs_tmp, records, by_norm, loaded, now, next_id, ret, calls,
                    pending, serial, genVars, recentVars, sideVars, postVars >>

\* ------------------------------------------------------- content generator

Min(a, b) == IF a < b THEN a ELSE b
Max(a, b) == IF a > b THEN a ELSE b

\* text[:n], Python's slice: the first n characters, or all but the last -n.
Slice(text, n) ==
    IF n >= 0 THEN SubSeq(text, 1, Min(n, Len(text)))
    ELSE SubSeq(text, 1, Max(Len(text) + n, 0))

\* _truncate: the first min(max(max_length, 1), 275) characters.
HardLimit == 275

truncate(text, max_length) == Slice(text, Min(Max(max_length, 1), HardLimit))

\* range(5) in _try_provider.
ProviderAttempts == 5

\* The canned lines of _fallback.
Fact1 ==
    << "D", "i", "d", " ", "y", "o", "u", " ", "k", "n", "o", "w", " ", "o",
       "c", "t", "o", "p", "u", "s", "e", "s", " ", "h", "a", "v", "e", " ",
       "t", "h", "r", "e", "e", " ", "h", "e", "a", "r", "t", "s", "?" >>

Fact2 ==
    << "D", "i", "d", " ", "y", "o", "u", " ", "k", "n", "o", "w", " ", "h",
       "o", "n", "e", "y", " ", "n", "e", "v", "e", "r", " ", "s", "p", "o",
       "i", "l", "s", "?", " ", "A", "r", "c", "h", "a", "e", "o", "l", "o",
       "g", "i", "s", "t", "s", " ", "f", "o", "u", "n", "d", " ", "e", "d",
       "i", "b", "l", "e", " ", "h", "o", "n", "e", "y", " ", "i", "n", " ",
       "a", "n", "c", "i", "e", "n", "t", " ", "t", "o", "m", "b", "s", "." >>

Fact3 ==
    << "D", "i", "d", " ", "y", "o", "u", " ", "k", "n", "o", "w", " ", "b",
       "a", "n", "a", "n", "a", "s", " ", "a", "r", "e", " ", "b", "e", "r",
       "r", "i", "e", "s", " ", "b", "u", "t", " ", "s", "t", "r", "a", "w",
       "b", "e", "r", "r", "i", "e", "s", " ", "a", "r", "e", "n", "RSQUO",
       "t", "?" >>

Fact4 ==
    << "D", "i", "d", " ", "y", "o", "u", " ", "k", "n", "o", "w", " ", "t",
       "h", "e", " ", "E", "i", "f", "f", "e", "l", " ", "T", "o", "w", "e",
       "r", " ", "c", "a", "n", " ", "b", "e", " ", "1", "5", " ", "c", "m",
       " ", "t", "a", "l", "l", "e", "r", " ", "i", "n", " ", "s", "u", "m",
       "m", "e", "r", " ", "d", "u", "e", " ", "t", "o", " ", "h", "e", "a",
       "t", " ", "e", "x", "p", "a", "n", "s", "i", "o", "n", "?" >>

Fact5 ==
    << "D", "i", "d", " ", "y", "o", "u", " ", "k", "n", "o", "w", " ", "a",
       " ", "d", "a", "y", " ", "o", "n", " ", "V", "e", "n", "u", "s", " ",
       "i", "s", " ", "l", "o", "n", "g", "e", "r", " ", "t", "h", "a", "n",
       " ", "i", "t", "s", " ", "y", "e", "a", "r", "?" >>

facts == << Fact1, Fact2, Fact3, Fact4, Fact5 >>

\* _fallback: one of the canned lines, cut to max_length by a slice.
fallback_choices(max_length) == { Slice(facts[i], max_length) : i \in 1..Len(facts) }

Prefix == << "D", "i", "d", " ", "y", "o", "u", " ", "k", "n", "o", "w", " " >>
Marker == << "A", "s", "s", "i", "s", "t", "a", "n", "t", ":" >>

\* str.lower() on the letters the generator's texts use.
LowerLetter(c) ==
    IF c = "D" THEN "d" ELSE IF c = "I" THEN "i" ELSE IF c = "Y" THEN "y"
    ELSE IF c = "O" THEN "o" ELSE IF c = "U" THEN "u" ELSE IF c = "K" THEN "k"
    ELSE IF c = "N" THEN "n" ELSE IF c = "W" THEN "w" ELSE LowerChar(c)

LowerText(s) == [i \in 1..Len(s) |-> LowerLetter(s[i])]

StartsWith(s, pre) == Len(s) >= Len(pre) /\ SubSeq(s, 1, Len(pre)) = pre
EndsWith(s, suf) == Len(s) >= Len(suf) /\ SubSeq(s, Len(s) - Len(suf) + 1, Len(s)) = suf

\* str.find: the first position where pat occurs in s, 0 when it does not.
Find(s, pat) ==
    LET hits == { k \in 1..(Len(s) - Len(pat) + 1) : SubSeq(s, k, k + Len(pat) - 1) = pat }
    IN IF hits = {} THEN 0 ELSE CHOOSE k \in hits : \A j \in hits : k <= j

\* clean[1:-1]
Inner(s) == SubSeq(s, 2, Len(s) - 1)

\* str.lstrip("-•* ")
RECURSIVE LStripBullets(_)
LStripBullets(s) ==
    IF s # << >> /\ Head(s) \in {"-", "BULLET", "*", " "} THEN LStripBullets(Tail(s)) ELSE s

\* _format_fact_out
format_fact_out(text) ==
    IF text = << >> THEN << >>
    ELSE
    LET c0 == Strip(text)
        m == Find(c0, Marker)
        c1 == IF m # 0 THEN Strip(SubSeq(c0, m + Len(Marker), Len(c0))) ELSE c0
        c2 == IF \/ (StartsWith(c1, << "DQUOTE" >>) /\ EndsWith(c1, << "DQUOTE" >>))
                 \/ (StartsWith(c1, << "'" >>) /\ EndsWith(c1, << "'" >>))
              THEN Strip(Inner(c1)) ELSE c1
        c3 == IF StartsWith(c2, << "BTICK" >>) /\ EndsWith(c2, << "BTICK" >>)
              THEN Strip(Inner(c2)) ELSE c2
        c4 == IF ~StartsWith(LowerText(c3), LowerText(Prefix))
              THEN Prefix \o LStripBullets(c3) ELSE c3
    IN IF ~(EndsWith(c4, << "." >>) \/ EndsWith(c4, << "?" >>))
       THEN RStrip(c4) \o << "." >> ELSE c4

\* The auto chain with the two local engines in the other order.
next_engine_swapped(e) ==
    IF e = "provider" THEN "hf" ELSE IF e = "hf" THEN "ollama" ELSE "fallback"

\* The engine generate tries after engine e in "auto" mode.
next_engine(e) ==
    IF e = "provider" THEN "ollama" ELSE IF e = "ollama" THEN "hf" ELSE "fallback"

\* generate going on to the next engine whatever engine was asked for.
after_engine_fallthrough(engine, e, text) ==
    IF text # << >> THEN "done" ELSE next_engine(e)

\* Where generate goes when engine e returned text: an explicit engine's
\* result is returned as it is, "auto" returns the first non-empty text.
after_engine(engine, e, text) ==
    IF engine # "auto" THEN "done"
    ELSE IF text # << >> THEN "done"
    ELSE next_engine(e)

\* Engine e returned text (empty for None) to generate.
Returned(e, text) ==
    LET nxt == after_engine(g_engine, e, text)
    IN /\ IF nxt = "done"
          THEN /\ g_pc' = "done"
               /\ g_calls' = g_calls
               /\ g_returned' = Append(g_returned, text)
               /\ g_out' = truncate(format_fact_out(text), g_limit)
          ELSE IF nxt = "fallback"
          THEN \E line \in fallback_choices(g_limit) :
                 /\ g_pc' = "done"
                 /\ g_calls' = Append(g_calls, "fallback")
                 /\ g_returned' = Append(Append(g_returned, text), line)
                 /\ g_out' = truncate(line, g_limit)
          ELSE /\ g_pc' = nxt
               /\ g_calls' = Append(g_calls, nxt)
               /\ g_returned' = Append(g_returned, text)
               /\ g_out' = g_out
       /\ g_attempt' = 0
       /\ UNCHANGED << g_engine, g_limit >>

Engines == {"auto", "provider", "ollama", "hf", "fallback"}
Limits == {-1, 0, 1, 220, 300}

\* What an engine may answer: nothing but whitespace, a bare sentence, a
\* quoted fact, or a text longer than any limit.
LongText == [i \in 1..280 |-> "x"]
RawTexts ==
    { << " " >>,
      << "a", " ", "b" >>,
      << "DQUOTE", "d", "i", "d", " ", "y", "o", "u", " ", "k", "n", "o", "w", " ", "a", "?", "DQUOTE" >>,
      LongText }

\* generate(prompt, preferred_engine) is called.
G_Start(engine, limit) ==
    /\ g_pc = "idle"
    /\ g_engine' = engine
    /\ g_limit' = limit
    /\ g_attempt' = 0
    /\ g_tries' = << >>
    /\ g_waits' = << >>
    /\ IF engine = "fallback"
       THEN \E line \in fallback_choices(limit) :
              /\ g_pc' = "done"
              /\ g_calls' = << "fallback" >>
              /\ g_returned' = << line >>
              /\ g_out' = truncate(line, limit)
       ELSE /\ g_pc' = IF engine = "auto" THEN "provider" ELSE engine
            /\ g_calls' = << g_pc' >>
            /\ g_returned' = << >>
            /\ g_out' = << >>
    /\ UNCHANGED << storeVars, procVars, postVars, recentVars, sideVars >>

\* _try_provider without a client (no key, base URL or model, or no openai).
G_ProviderUnavailable ==
    /\ g_pc = "provider"
    /\ g_attempt = 0
    /\ Returned("provider", << >>)
    /\ UNCHANGED << g_tries, g_waits, storeVars, procVars, postVars, recentVars, sideVars >>

\* The delay of _try_provider after a failed attempt, (2 ** attempt) * 0.75
\* seconds, in quarter seconds.
backoff_delay(attempt) == (2 ^ attempt) * 3

\* _try_provider giving up after the first attempt without text.
ProviderNoText_giveup == Returned("provider", << >>)

\* The loop of _try_provider goes on after an attempt without text: the next
\* attempt, or None after the last one.
ProviderNoText ==
    IF g_attempt + 1 < ProviderAttempts
    THEN /\ g_attempt' = g_attempt + 1
         /\ UNCHANGED << g_pc, g_engine, g_limit, g_calls, g_returned, g_out >>
    ELSE Returned("provider", << >>)

\* One attempt of _try_provider's loop in which the call answers: raw text,
\* returned at once when it is not blank, or nothing.
G_ProviderAttempt(raw) ==
    /\ g_pc = "provider"
    /\ g_attempt < ProviderAttempts
    /\ IF Strip(raw) # << >>
       THEN /\ Returned("provider", Strip(raw))
            /\ g_tries' = Append(g_tries, "text")
       ELSE /\ ProviderNoText
            /\ g_tries' = Append(g_tries, "empty")
    /\ UNCHANGED << g_waits, storeVars, procVars, postVars, recentVars, sideVars >>

\* One attempt of _try_provider's loop in which the call raises: the error is
\* printed and the loop sleeps before it goes on.
G_ProviderRaise ==
    /\ g_pc = "provider"
    /\ g_attempt < ProviderAttempts
    /\ ProviderNoText
    /\ g_tries' = Append(g_tries, "raise")
    /\ g_waits' = Append(g_waits, backoff_delay(g_attempt))
    /\ UNCHANGED << storeVars, procVars, postVars, recentVars, sideVars >>

\* _try_ollama: no client, or the chat and generate calls answer raw (empty
\* when both fail or answer nothing).
G_Ollama(raw) ==
    /\ g_pc = "ollama"
    /\ Returned("ollama", Strip(raw))
    /\ UNCHANGED << g_tries, g_waits, storeVars, procVars, postVars, recentVars, sideVars >>

\* _try_hf: no pipeline, or the pipeline answers raw (empty when it fails).
G_Hf(raw) ==
    /\ g_pc = "hf"
    /\ Returned("hf", Strip(raw))
    /\ UNCHANGED << g_tries, g_waits, storeVars, procVars, postVars, recentVars, sideVars >>

\* generate has returned; the next request may come.
G_Return ==
    /\ g_pc = "done"
    /\ g_pc' = "idle"
    /\ UNCHANGED << g_engine, g_limit, g_attempt, g_calls, g_returned, g_out,
                    g_tries, g_waits, storeVars, procVars, postVars, recentVars, sideVars >>

\* ------------------------------------------------------- posting client

\* post_tweet returning None.
NoId == "none"

\* The id create_tweet answers with.
TweetId == "id"

\* range(3) in post_tweet.
TweetAttempts == 3

\* A rate-limit error without a usable x-rate-limit-reset header.
NoReset == [parse |-> FALSE, delta |-> 0]

\* A rate-limit error whose header says the limit resets d seconds from now.
ResetIn(d) == [parse |-> TRUE, delta |-> d]

\* _compute_retry_delay_seconds honouring the reset time without the cap.
compute_retry_delay_uncapped(hdr, attempt_index) ==
    IF hdr.parse THEN Max(0, hdr.delta) + 2
    ELSE Min(30 * (attempt_index + 1), 180)

\* _compute_retry_delay_seconds, hdr.delta being reset_epoch - now_epoch.
compute_retry_delay_seconds(hdr, attempt_index) ==
    IF hdr.parse THEN Min(Max(0, hdr.delta) + 2, 600)
    ELSE Min(30 * (attempt_index + 1), 180)

\* post_tweet(text, dry_run) called on its own.
post_tweet_call(text, dry_run) ==
    /\ t_pc = "idle"
    /\ c_pc = "idle"
    /\ t_pc' = "called"
    /\ t_text' = text
    /\ t_dry' = dry_run
    /\ t_attempt' = 0
    /\ t_api' = << >>
    /\ t_waits' = << >>
    /\ t_hdrs' = << >>
    /\ t_result' = NoId
    /\ t_last' = "none"
    /\ c_out' = << >>
    /\ UNCHANGED << c_pc, c_op, c_dry, c_limit, c_tweet, c_pick, c_rec, c_sent, c_id,
                    c_marked,
                    storeVars, procVars, genVars, recentVars, sideVars >>

\* post_tweet sending blank text to the platform like any other text.
post_tweet_guard_none(text) == FALSE

\* The safety test at the head of post_tweet: the text is None, empty or blank.
post_tweet_guard(text) == Strip(text) = << >>

\* The head of post_tweet: blank text and dry runs return None at once.
post_tweet_begin ==
    /\ t_pc = "called"
    /\ IF post_tweet_guard(t_text)
       THEN /\ c_out' = Append(c_out, "tweet-empty")
            /\ t_pc' = "done"
       ELSE /\ c_out' = c_out
            /\ t_pc' = IF t_dry THEN "done" ELSE "try"
    /\ UNCHANGED << t_text, t_dry, t_attempt, t_api, t_waits, t_hdrs, t_result, t_last,
                    c_pc, c_op, c_dry, c_limit, c_tweet, c_pick, c_rec, c_sent, c_id,
                    c_marked,
                    storeVars, procVars, genVars, recentVars, sideVars >>

\* The loop of post_tweet goes on after a rate-limit error of this attempt.
rate_limit_goes_on(attempt) == attempt + 1 < TweetAttempts

\* post_tweet trying again after an error that is no rate limit.
retry_on_error_always(outcome) == TRUE

\* The errors after which the loop of post_tweet tries again.
retry_on_error(outcome) == outcome = "rate"

\* One pass of the loop of post_tweet: create_tweet answers with an id
\* ("ok"), with a response without one ("noid"), with TooManyRequests
\* ("rate") or with another error ("other").
post_tweet_attempt(outcome, hdr) ==
    /\ t_pc = "try"
    /\ t_api' = Append(t_api, [text |-> t_text, outcome |-> outcome])
    /\ IF outcome \in {"ok", "noid"}
       THEN /\ t_result' = IF outcome = "ok" THEN TweetId ELSE NoId
            /\ t_pc' = "done"
            /\ UNCHANGED << t_attempt, t_waits, t_hdrs, t_last, c_out >>
       ELSE /\ t_result' = NoId
            /\ t_last' = outcome
            /\ t_waits' = IF outcome = "rate"
                          THEN Append(t_waits, compute_retry_delay_seconds(hdr, t_attempt))
                          ELSE t_waits
            /\ t_hdrs' = IF outcome = "rate"
                         THEN Append(t_hdrs, [hdr |-> hdr, attempt |-> t_attempt])
                         ELSE t_hdrs
            /\ IF retry_on_error(outcome) /\ rate_limit_goes_on(t_attempt)
               THEN /\ t_attempt' = t_attempt + 1
                    /\ t_pc' = "try"
                    /\ c_out' = Append(c_out, "rate-limit")
               ELSE /\ t_attempt' = t_attempt
                    /\ t_pc' = "done"
                    /\ c_out' = IF outcome = "rate"
                                THEN c_out \o << "rate-limit", "rate-limit-exhausted" >>
                                ELSE Append(c_out, "twitter-error")
    /\ UNCHANGED << t_text, t_dry,
                    c_pc, c_op, c_dry, c_limit, c_tweet, c_pick, c_rec, c_sent, c_id,
                    c_marked,
                    storeVars, procVars, genVars, recentVars, sideVars >>

\* post_tweet, called on its own, has returned.
post_tweet_return ==
    /\ t_pc = "done"
    /\ c_pc = "idle"
    /\ t_pc' = "idle"
    /\ UNCHANGED << t_text, t_dry, t_attempt, t_api, t_waits, t_hdrs, t_result, t_last,
                    cliVars, storeVars, procVars, genVars, recentVars, sideVars >>

\* ------------------------------------------------------------ CLI operations

\* The ceiling of _truncate_to_limit.
CliHardLimit == 275

\* _truncate_to_limit
truncate_to_limit(text, limit) == Slice(text, Min(Max(limit, 1), CliHardLimit))

\* The replacements of _sanitize_no_emdash, character by character.
SanitizeChar(c) ==
    IF c \in {"EM", "EN"} THEN "-"
    ELSE IF c \in {"LDQUO", "RDQUO"} THEN "DQUOTE"
    ELSE IF c = "RSQUO" THEN "'"
    ELSE c

\* _sanitize_no_emdash
sanitize_no_emdash(text) == [i \in 1..Len(text) |-> SanitizeChar(text[i])]

\* What generate(prompt, engine) may return under limit, the engines
\* answering nothing or one of raws.
generate_results(engine, limit, raws) ==
    LET answers == { Strip(raw) : raw \in raws } \ { << >> }
        formatted == { truncate(format_fact_out(a), limit) : a \in answers }
        canned == { truncate(line, limit) : line \in fallback_choices(limit) }
    IN IF engine = "fallback" THEN canned
       ELSE IF engine = "auto" THEN formatted \cup canned
       ELSE formatted \cup { << >> }

\* use_dry_run = config.dry_run_default if dry_run is None else dry_run
use_dry_run(flag, default) == IF flag = "unset" THEN default ELSE flag = "yes"

\* No record (pick is None).
NoRec == [id |-> 0, text |-> << >>, author |-> << >>, source |-> "",
          added_at |-> << >>, last_posted_at |-> << >>, times_posted |-> 0]

\* The cooldown every CLI operation asks pick_for_post for.
CliCooldown == 14

\* The operation op, with its settings, has produced tweet and printed out,
\* and now stands at next: a call of the posting collaborator, its end
\* ("done") or an uncaught exception ("raised").
CliStep(op, dry, limit, tweet, pick, rec, out, next) ==
    /\ c_op' = op
    /\ c_dry' = dry
    /\ c_limit' = limit
    /\ c_tweet' = tweet
    /\ c_pick' = pick
    /\ c_rec' = rec
    /\ c_out' = out
    /\ c_pc' = next
    /\ c_id' = NoId
    /\ c_marked' = << >>
    /\ c_sent' = IF next \in {"post_tweet", "upload"}
                 THEN << [via |-> next, text |-> tweet] >> ELSE << >>
    /\ IF next = "post_tweet"
       THEN /\ t_pc' = "called"
            /\ t_text' = tweet
            /\ t_dry' = FALSE
            /\ t_attempt' = 0
            /\ t_api' = << >>
            /\ t_waits' = << >>
            /\ t_hdrs' = << >>
            /\ t_result' = NoId
            /\ t_last' = "none"
       ELSE UNCHANGED tweetVars

\* The end of every posting operation once its text is there: print it, stop
\* on a dry run, otherwise hand it to the posting collaborator.
PrintAndPost(op, dry, limit, tweet, pick, rec, via) ==
    IF dry
    THEN CliStep(op, dry, limit, tweet, pick, rec, << "text", "dry-run" >>, "done")
    ELSE CliStep(op, dry, limit, tweet, pick, rec, << "text" >>, via)

\* What the engines answer in the CLI operations: text with a curly apostrophe.
CliRaws == { << "a", "RSQUO", "b" >> }

\* The configured length limits of the CLI operations.
CliLimits == {0, 1, 220}

\* The engines asked for: "provider" and "hf" make generate behave as "ollama".
CliEngines == {"auto", "ollama", "fallback"}

\* generate_results for every engine and limit of the CLI operations.
GenTable ==
    [engine \in CliEngines, limit \in CliLimits |-> generate_results(engine, limit, CliRaws)]

CliIdle == c_pc = "idle" /\ t_pc = "idle"

\* post: generate and post.
post(flag, default, engine, limit) ==
    /\ CliIdle
    /\ \E text \in GenTable[engine, limit] :
          IF text = << >>
          THEN CliStep("post", use_dry_run(flag, default), limit, text, 0, NoRec,
                       << "error" >>, "done")
          ELSE PrintAndPost("post", use_dry_run(flag, default), limit, text, 0, NoRec,
                            "post_tweet")
    /\ UNCHANGED << storeVars, procVars, genVars, recentVars, sideVars >>

\* post-text: post the given text as it is.
post_text(flag, default, text, limit) ==
    /\ CliIdle
    /\ PrintAndPost("post_text", use_dry_run(flag, default), limit, text, 0, NoRec,
                    "post_tweet")
    /\ UNCHANGED << storeVars, procVars, genVars, recentVars, sideVars >>

\* The tweet of post-stoic and post-stoic-image from the fetched quote and,
\* when rephrasing, the generated text ai_text.
stoic_tweet(quote, rephrase, ai_text, limit) ==
    LET text == sanitize_no_emdash(quote)
        candidate == IF rephrase /\ Strip(ai_text) # << >> THEN Strip(ai_text) ELSE text
    IN truncate_to_limit(Strip(sanitize_no_emdash(candidate)), limit)

\* post-stoic: fetch a quote, rephrase it, post it.
post_stoic(flag, default, engine, rephrase, limit, quote) ==
    /\ CliIdle
    /\ \E ai_text \in GenTable[engine, limit] :
          PrintAndPost("post_stoic", use_dry_run(flag, default), limit,
                       stoic_tweet(quote, rephrase, ai_text, limit), 0, NoRec, "post_tweet")
    /\ UNCHANGED << storeVars, procVars, genVars, recentVars, sideVars >>

\* post-stoic-image: as post-stoic, with an image when one could be made
\* (image), both compositions being guarded.
post_stoic_image(flag, default, engine, rephrase, limit, quote, image) ==
    /\ CliIdle
    /\ \E ai_text \in GenTable[engine, limit] :
          PrintAndPost("post_stoic_image", use_dry_run(flag, default), limit,
                       stoic_tweet(quote, rephrase, ai_text, limit), 0, NoRec,
                       IF image THEN "upload" ELSE "post_tweet")
    /\ UNCHANGED << storeVars, procVars, genVars, recentVars, sideVars >>

\* The memory of a new QuoteStore after _ensure_loaded.
fresh_load ==
    IF ~fs_store.exists THEN [records |-> << >>, by_norm |-> EmptyMap]
    ELSE LoadLoop(<< >>, EmptyMap, ReadRows(fs_store.lines))

\* The store file after the _ensure_loaded of a new QuoteStore.
fresh_load_file == IF ~fs_store.exists THEN File(<< CSV_HEADER >>) ELSE fs_store

\* store = QuoteStore(); pick = store.pick_for_post(cooldown_days=14), the
\* pick being the i-th record (0: None).
CliPick(mem, i) ==
    /\ i \in pick_choices(mem.records, CliCooldown, now)
    /\ records' = [records EXCEPT ![Main] = mem.records]
    /\ by_norm' = [by_norm EXCEPT ![Main] = mem.by_norm]
    /\ loaded' = [loaded EXCEPT ![Main] = TRUE]
    /\ fs_store' = fresh_load_file
    /\ ret' = [op |-> "cli"]
    /\ UNCHANGED << fs_tmp, now, next_id, calls >>

RecOf(mem, i) == IF i = 0 THEN NoRec ELSE mem.records[i]

\* post-auto-image: a stored quote or a fetched one, rewritten, with an
\* image. load is the outcome of reading the store file, fetched what
\* fetch_quote_rotating returns (empty for None), compose how the image came
\* about: from the image service ("ai"), from compose_duotone_text
\* ("duotone"), or compose_duotone_text raised ("raise").
post_auto_image(flag, default, engine, limit, load, fetched, compose) ==
    /\ CliIdle
    /\ TotalMarks < MaxMarks
    /\ IF load = "raise"
       THEN /\ CliStep("post_auto_image", use_dry_run(flag, default), limit, << >>, 0,
                       NoRec, << >>, "raised")
            /\ UNCHANGED storeVars
       ELSE \E mem \in { fresh_load } : \E i \in 0..Len(mem.records) :
            /\ CliPick(mem, i)
            /\ \E raw \in { IF i # 0 /\ mem.records[i].text # << >>
                            THEN mem.records[i].text ELSE fetched } :
               IF raw = << >>
               THEN CliStep("post_auto_image", use_dry_run(flag, default), limit, << >>, i,
                            RecOf(mem, i), << "error" >>, "done")
               ELSE \E candidate \in GenTable[engine, limit] :
                    \E tweet \in { truncate_to_limit(sanitize_no_emdash(Strip(candidate)),
                                                     limit) } :
                    IF tweet = << >>
                    THEN CliStep("post_auto_image", use_dry_run(flag, default), limit,
                                 tweet, i, RecOf(mem, i), << "error" >>, "done")
                    ELSE IF compose = "raise"
                    THEN CliStep("post_auto_image", use_dry_run(flag, default), limit,
                                 tweet, i, RecOf(mem, i), << >>, "raised")
                    ELSE PrintAndPost("post_auto_image", use_dry_run(flag, default), limit,
                                      tweet, i, RecOf(mem, i), "upload")
    /\ UNCHANGED << procVars, genVars, recentVars, sideVars >>

\* tweet = f"{text} --- {author}" if author else text
quote_tweet(rec) ==
    IF Strip(rec.author) # << >>
    THEN Strip(rec.text) \o << " ", "-", "-", "-", " " >> \o Strip(rec.author)
    ELSE Strip(rec.text)

\* post-quote-image: a stored quote with its author and an image, no rewriting.
post_quote_image(flag, default, limit, load, compose) ==
    /\ CliIdle
    /\ TotalMarks < MaxMarks
    /\ IF load = "raise"
       THEN /\ CliStep("post_quote_image", use_dry_run(flag, default), limit, << >>, 0,
                       NoRec, << >>, "raised")
            /\ UNCHANGED storeVars
       ELSE \E mem \in { fresh_load } : \E i \in 0..Len(mem.records) :
            /\ CliPick(mem, i)
            /\ IF i = 0
               THEN CliStep("post_quote_image", use_dry_run(flag, default), limit, << >>, 0,
                            NoRec, << "error" >>, "done")
               ELSE \E tweet \in { truncate_to_limit(
                                       sanitize_no_emdash(quote_tweet(mem.records[i])),
                                       limit) } :
                    IF tweet = << >>
                    THEN CliStep("post_quote_image", use_dry_run(flag, default), limit,
                                 tweet, i, mem.records[i], << "error" >>, "done")
                    ELSE IF compose = "raise"
                    THEN CliStep("post_quote_image", use_dry_run(flag, default), limit,
                                 tweet, i, mem.records[i], << "text" >>, "raised")
                    ELSE PrintAndPost("post_quote_image", use_dry_run(flag, default), limit,
                                      tweet, i, mem.records[i], "upload")
    /\ UNCHANGED << procVars, genVars, recentVars, sideVars >>

\* upload_media_and_post(text, image_bytes, filename) -> id | none: the
\* collaborator answers with an id or with none, and raises nothing.
upload_media_and_post(id) ==
    /\ c_pc = "upload"
    /\ c_id' = id
    /\ c_pc' = "after"
    /\ UNCHANGED << c_op, c_dry, c_limit, c_tweet, c_pick, c_rec, c_out, c_sent, c_marked,
                    tweetVars, storeVars, procVars, genVars, recentVars, sideVars >>

\* tweet_id = twitter.post_tweet(tweet): post_tweet returns to the operation.
post_tweet_result ==
    /\ c_pc = "post_tweet"
    /\ t_pc = "done"
    /\ c_id' = t_result
    /\ c_pc' = "after"
    /\ t_pc' = "idle"
    /\ UNCHANGED << t_text, t_dry, t_attempt, t_api, t_waits, t_hdrs, t_result, t_last,
                    c_op, c_dry, c_limit, c_tweet, c_pick, c_rec, c_out, c_sent, c_marked,
                    storeVars, procVars, genVars, recentVars, sideVars >>

\* An operation that marks its pick whatever the posting collaborator answered.
should_mark_always(op, id, pick) ==
    op \in {"post_auto_image", "post_quote_image"} /\ pick # 0

\* The operation calls store.mark_posted(pick) after the post: post-auto-image
\* "if tweet_id and pick", post-quote-image "if tweet_id".
should_mark(op, id, pick) ==
    \/ op = "post_auto_image" /\ id # NoId /\ pick # 0
    \/ op = "post_quote_image" /\ id # NoId

\* The rest of the operation after the posting collaborator answered:
\* mark_posted where the operation has it (persist: whether _persist wrote the
\* file or raised), then the status line.
after_post(persist) ==
    /\ c_pc = "after"
    /\ IF should_mark(c_op, c_id, c_pick)
       THEN /\ records' = [records EXCEPT ![Main][c_pick] = marked(@, now)]
            /\ calls' = [calls EXCEPT ![records[Main][c_pick].id] =
                                           [n |-> @.n + 1, at |-> now]]
            /\ c_marked' = Append(c_marked, c_pick)
            /\ ret' = [op |-> "cli"]
            /\ IF persist = "ok"
               THEN /\ fs_store' = Table(records'[Main])
                    /\ fs_tmp' = Absent
                    /\ c_pc' = "done"
                    /\ c_out' = Append(c_out, "posted")
               ELSE /\ c_pc' = "raised"
                    /\ UNCHANGED << fs_store, fs_tmp, c_out >>
            /\ UNCHANGED << by_norm, loaded, now, next_id >>
       ELSE /\ persist = "ok"
            /\ c_pc' = "done"
            /\ c_out' = Append(c_out, IF c_id # NoId THEN "posted" ELSE "skip")
            /\ UNCHANGED << storeVars, c_marked >>
    /\ UNCHANGED << c_op, c_dry, c_limit, c_tweet, c_pick, c_rec, c_sent, c_id,
                    tweetVars, procVars, genVars, recentVars, sideVars >>

\* ingest-csv: a new store instance ingests the rows of a CSV file.
ingest_csv(batch) ==
    /\ CliIdle
    /\ ingest_quote_records(Main, batch, "q.csv")

\* The process of the operation ends, and its store instance with it.
cli_exit ==
    /\ c_pc \in {"done", "raised"}
    /\ c_pc' = "idle"
    /\ c_op' = "none"
    /\ c_dry' = TRUE
    /\ c_limit' = 220
    /\ c_tweet' = << >>
    /\ c_pick' = 0
    /\ c_rec' = NoRec
    /\ c_out' = << >>
    /\ c_sent' = << >>
    /\ c_id' = NoId
    /\ c_marked' = << >>
    /\ t_pc' = "idle"
    /\ t_text' = << >>
    /\ t_dry' = FALSE
    /\ t_attempt' = 0
    /\ t_api' = << >>
    /\ t_waits' = << >>
    /\ t_hdrs' = << >>
    /\ t_result' = NoId
    /\ t_last' = "none"
    /\ records' = [records EXCEPT ![Main] = << >>]
    /\ by_norm' = [by_norm EXCEPT ![Main] = EmptyMap]
    /\ loaded' = [loaded EXCEPT ![Main] = FALSE]
    /\ ret' = [op |-> "new"]
    /\ UNCHANGED << fs_store, fs_tmp, now, next_id, calls, procVars, genVars, recentVars, sideVars >>


\* ------------------------------------------------------------------ inputs

Cand(t, a) == [text |-> t, author |-> a]
NoAuthor == << >>

\* Plain candidate quotes.
PlainCands ==
    { Cand(<< "a" >>, NoAuthor), Cand(<< "b" >>, << "S" >>), Cand(<< "A", "-", "b" >>, NoAuthor) }

\* Candidate quotes that differ in case, whitespace, dashes and quotes, and a
\* blank one.
VariantCands ==
    { Cand(<< "A", "-", "b" >>, NoAuthor),
      Cand(<< "a", "-", "B" >>, NoAuthor),
      Cand(<< " ", "A", "-", "b", "TAB" >>, << "S" >>),
      Cand(<< "A", "EM", "b" >>, NoAuthor),
      Cand(<< "A", "EN", "b" >>, NoAuthor),
      Cand(<< "a", " ", "'", "b" >>, NoAuthor),
      Cand(<< "a", " ", "TAB", "'", "b" >>, NoAuthor),
      Cand(<< "a", " ", "RSQUO", "b" >>, NoAuthor),
      Cand(<< " ", "TAB" >>, NoAuthor) }

\* The batches of the ingest specification: one candidate, or two of them with
\* the same text up to case.
VariantBatches ==
    { << c >> : c \in VariantCands }
    \cup { << Cand(<< "A", "-", "b" >>, NoAuthor), Cand(<< "a", "-", "B" >>, NoAuthor) >>,
           << Cand(<< " ", "TAB" >>, NoAuthor), Cand(<< "A", "EM", "b" >>, NoAuthor) >> }

Cooldowns == 0..MaxCooldown

vars == << storeVars, procVars, genVars, postVars, recentVars, sideVars >>

Init ==
    /\ fs_store = Absent
    /\ fs_tmp = Absent
    /\ records = [p \in Procs |-> << >>]
    /\ by_norm = [p \in Procs |-> EmptyMap]
    /\ loaded = [p \in Procs |-> FALSE]
    /\ now = 0
    /\ next_id = 1
    /\ ret = [op |-> "new"]
    /\ calls = << >>
    /\ pc = [p \in Procs |-> "idle"]
    /\ fd = [p \in Procs |-> NoFd]
    /\ pending = [p \in Procs |-> [before |-> Absent, after |-> Absent]]
    /\ serial = EmptyMap
    /\ g_pc = "idle"
    /\ g_engine = "auto"
    /\ g_limit = 220
    /\ g_attempt = 0
    /\ g_calls = << >>
    /\ g_returned = << >>
    /\ g_out = << >>
    /\ g_tries = << >>
    /\ g_waits = << >>
    /\ t_pc = "idle"
    /\ t_text = << >>
    /\ t_dry = FALSE
    /\ t_attempt = 0
    /\ t_api = << >>
    /\ t_waits = << >>
    /\ t_hdrs = << >>
    /\ t_result = NoId
    /\ t_last = "none"
    /\ cadence = 0
    /\ k_last = "none"
    /\ k_prev = 0
    /\ b_pc = "idle"
    /\ b_calls = 0
    /\ b_items = << >>
    /\ b_emitted = << >>
    /\ lk = [f \in StateFiles |-> 0]
    /\ l_exists = [f \in StateFiles |-> FALSE]
    /\ l_pc = [p \in Procs |-> "idle"]
    /\ l_file = [p \in Procs |-> "recent"]
    /\ l_local = [p \in Procs |-> StateDefault]
    /\ l_round = [p \in Procs |-> 0]
    /\ l_commits = [f \in StateFiles |-> << >>]
    /\ f_pc = "idle"
    /\ f_order = << >>
    /\ f_tried = << >>
    /\ f_ret = [some |-> FALSE, text |-> << >>]
    /\ i_pc = "idle"
    /\ i_kind = "horde"
    /\ i_budget = 0
    /\ i_polls = 0
    /\ i_waits = 0
    /\ i_last = "none"
    /\ i_ret = "none"
    /\ n_raw = << >>
    /\ n_out = << >>
    /\ recent = << >>
    /\ r_log = << >>
    /\ r_fails = 0
    /\ c_pc = "idle"
    /\ c_op = "none"
    /\ c_dry = TRUE
    /\ c_limit = 220
    /\ c_tweet = << >>
    /\ c_pick = 0
    /\ c_rec = NoRec
    /\ c_out = << >>
    /\ c_sent = << >>
    /\ c_id = NoId
    /\ c_marked = << >>

\* One invocation after another: store calls on a store instance, a new
\* instance in between.
Next ==
    \/ NewStore(Main)
    \/ \E c \in PlainCands : ingest_quote_records(Main, << c >>, "apis")
    \/ \E cd \in Cooldowns : pick_for_post(Main, cd)
    \/ \E i \in 1..MaxRecords : mark_posted(Main, i)
    \/ count(Main)
    \/ Tick

Spec == Init /\ [][Next]_vars

\* Ingestion of variant texts, with mark_posted and new instances in between.
NextIngest ==
    \/ NewStore(Main)
    \/ \E b \in VariantBatches : ingest_quote_records(Main, b, "q.csv")
    \/ \E i \in 1..MaxRecords : mark_posted(Main, i)

SpecIngest == Init /\ [][NextIngest]_vars

\* One invocation at a time, step by step; the process may stop at any step.
NextCrash ==
    \/ P_Begin(Main)
    \/ \E c \in PlainCands : P_Ingest(Main, << c >>, "apis")
    \/ \E i \in 1..MaxRecords : P_Mark(Main, i)
    \/ P_OpenTmp(Main)
    \/ P_Write(Main)
    \/ P_Replace(Main)
    \/ P_Exit(Main)
    \/ P_Crash(Main)

SpecCrash == Init /\ [][NextCrash]_vars

\* Two invocations at once, step by step.
NextConc ==
    \E p \in Procs :
        \/ P_Begin(p)
        \/ \E c \in PlainCands : P_Ingest(p, << c >>, "apis")
        \/ \E i \in 1..MaxRecords : P_Mark(p, i)
        \/ P_OpenTmp(p)
        \/ P_Write(p)
        \/ P_Replace(p)
        \/ P_Exit(p)

SpecConc == Init /\ [][NextConc]_vars

\* Generation requests, one after the other.
NextGen ==
    \/ \E engine \in Engines, limit \in Limits : G_Start(engine, limit)
    \/ G_ProviderUnavailable
    \/ \E raw \in RawTexts \cup {<< >>} : G_ProviderAttempt(raw)
    \/ G_ProviderRaise
    \/ \E raw \in RawTexts \cup {<< >>} : G_Ollama(raw)
    \/ \E raw \in RawTexts \cup {<< >>} : G_Hf(raw)
    \/ G_Return

SpecGen == Init /\ [][NextGen]_vars

\* The texts post_tweet is called with: blank ones, a plain one, one with an
\* em dash.
TweetTexts == { << >>, << " " >>, << "a", "b" >>, << "a", "EM", "b" >> }

\* The x-rate-limit-reset headers of a rate-limit error.
ResetHeaders == { NoReset, ResetIn(-5), ResetIn(0), ResetIn(10), ResetIn(700) }

TweetOutcomes == {"ok", "noid", "rate", "other"}

\* Calls of post_tweet, one after the other.
NextTweet ==
    \/ \E text \in TweetTexts, dry_run \in BOOLEAN : post_tweet_call(text, dry_run)
    \/ post_tweet_begin
    \/ \E outcome \in TweetOutcomes, hdr \in ResetHeaders : post_tweet_attempt(outcome, hdr)
    \/ post_tweet_return

SpecTweet == Init /\ [][NextTweet]_vars

Flags == {"unset", "yes", "no"}

\* The texts post-text is given.
PostTexts == { << >>, << " " >>, << "a", "b" >>, << "a", "EM", "b" >> }

\* The quotes StoicClient.fetch_quote returns (never None: it falls back to
\* its local list, whose first quote has an em dash).
StoicQuotes == { << "m", "EM", "n" >>, << "LSQUO", "w", "RSQUO" >> }

\* What fetch_quote_rotating returns: None (empty) or a text.
FetchResults == { << >>, << "q", "EN", "r" >> }

\* The CSV files ingested: one quote, with an em dash, and the same with a
\* second quote that has an author.
CliBatches ==
    { << Cand(<< "a", "EM", "c" >>, NoAuthor) >>,
      << Cand(<< "a", "EM", "c" >>, NoAuthor), Cand(<< "b" >>, << "S" >>) >> }

\* CLI invocations, one after the other, on a store filled by ingest-csv.
NextCli ==
    \/ \E batch \in CliBatches : ingest_csv(batch)
    \/ \E flag \in Flags, default \in BOOLEAN, engine \in CliEngines, limit \in CliLimits :
          post(flag, default, engine, limit)
    \/ \E flag \in Flags, default \in BOOLEAN, text \in PostTexts, limit \in CliLimits :
          post_text(flag, default, text, limit)
    \/ \E flag \in Flags, default \in BOOLEAN, engine \in CliEngines, rephrase \in BOOLEAN,
          limit \in CliLimits, quote \in StoicQuotes :
          post_stoic(flag, default, engine, rephrase, limit, quote)
    \/ \E flag \in Flags, default \in BOOLEAN, engine \in CliEngines, rephrase \in BOOLEAN,
          limit \in CliLimits, quote \in StoicQuotes, image \in BOOLEAN :
          post_stoic_image(flag, default, engine, rephrase, limit, quote, image)
    \/ \E flag \in Flags, default \in BOOLEAN, engine \in CliEngines, limit \in CliLimits,
          load \in {"ok", "raise"}, fetched \in FetchResults,
          compose \in {"ai", "duotone", "raise"} :
          post_auto_image(flag, default, engine, limit, load, fetched, compose)
    \/ \E flag \in Flags, default \in BOOLEAN, limit \in CliLimits,
          load \in {"ok", "raise"}, compose \in {"ai", "duotone", "raise"} :
          post_quote_image(flag, default, limit, load, compose)
    \/ post_tweet_begin
    \/ \E outcome \in {"ok", "other"} : post_tweet_attempt(outcome, NoReset)
    \/ post_tweet_result
    \/ \E id \in {TweetId, NoId} : upload_media_and_post(id)
    \/ \E persist \in {"ok", "raise"} : after_post(persist)
    \/ cli_exit

SpecCli == Init /\ [][NextCli]_vars

\* ------------------------------------------------------ the recent-posts list

\* The bounds of the posting history.
MaxPosts == 202
MaxFails == 1

RecentCap == 200

\* The text of the k-th successful post; texts repeat, the list keeps repeats.
RecentTexts == << "a", "b", "c", "d", "e", "f", "g" >>
TextOf(k) == << RecentTexts[(k % Len(RecentTexts)) + 1] >>

\* Eviction that drops the newest entry instead of the oldest.
evict_newest(list) ==
    IF Len(list) > RecentCap THEN SubSeq(list, 1, RecentCap) ELSE list

\* Cap the stored size: the oldest entry is dropped first.
evict(list) ==
    IF Len(list) > RecentCap THEN SubSeq(list, Len(list) - RecentCap + 1, Len(list)) ELSE list

recency_append(list, text) == evict(Append(list, text))

\* A post succeeded: its text is appended to the recent-posts list.
recency_posted ==
    /\ c_pc = "idle"
    /\ Len(r_log) < MaxPosts
    /\ \E text \in { TextOf(Len(r_log) + 1) } :
           /\ recent' = recency_append(recent, text)
           /\ r_log' = Append(r_log, text)
    /\ UNCHANGED << r_fails, storeVars, procVars, genVars, postVars, sideVars >>

\* A post failed or was skipped or ran dry: the list is left alone.
recency_skipped ==
    /\ c_pc = "idle"
    /\ r_fails < MaxFails
    /\ r_fails' = r_fails + 1
    /\ UNCHANGED << recent, r_log, storeVars, procVars, genVars, postVars, sideVars >>

NextRecent ==
    \/ recency_posted
    \/ recency_skipped

SpecRecent == Init /\ [][NextRecent]_vars


\* ------------------------------------- the cadence counter and the batch

\* The bound of the single posts of a history.
MaxSingles == 31

CadenceThreshold == 15
BatchAttempts == 50
BatchSize == 10
RecentWindow == 500

\* How a single post can end.
PostOutcomes == {"posted", "failed", "skipped", "dry-run"}

\* A counter that counts every post, successful or not.
cadence_after_any(c, outcome) == c + 1

\* The counter after a single post: incremented on a successful one.
cadence_after(c, outcome) == IF outcome = "posted" THEN c + 1 ELSE c

\* The entries of the recent-posts list the batch routine compares with.
recent_set ==
    { recent[i] : i \in Max(1, Len(recent) - RecentWindow + 1)..Len(recent) }

\* The k-th new text the generator comes up with during a batch.
Digits == << "1", "2", "3", "4", "5", "6", "7", "8", "9", "10", "11" >>
Fresh(k) == << "i", Digits[k] >>

\* A batch routine that takes every generated item.
batch_accepts_all(text) == TRUE

\* An item is collected when it is not a recent post and not collected yet.
batch_accepts(text) ==
    /\ text \notin recent_set
    /\ \A i \in 1..Len(b_items) : b_items[i] # text

\* One single post: on success the recent-posts list and the counter are
\* updated, and the batch routine starts when the counter reaches the threshold.
single_post(outcome) ==
    /\ c_pc = "idle"
    /\ b_pc = "idle"
    /\ Len(r_log) < MaxSingles
    /\ k_prev' = cadence
    /\ k_last' = outcome
    /\ cadence' = cadence_after(cadence, outcome)
    /\ IF outcome = "posted"
       THEN /\ \E text \in { TextOf(Len(r_log) + 1) } :
                  /\ recent' = recency_append(recent, text)
                  /\ r_log' = Append(r_log, text)
            /\ UNCHANGED r_fails
       ELSE /\ r_fails < MaxFails
            /\ r_fails' = r_fails + 1
            /\ UNCHANGED << recent, r_log >>
    /\ b_pc' = IF cadence_after(cadence, outcome) >= CadenceThreshold
               THEN "collect" ELSE "idle"
    /\ UNCHANGED << b_calls, b_items, b_emitted,
                    storeVars, procVars, genVars, postVars, lockVars, ioVars >>

\* One generation call of the batch routine, answering text.
batch_generate(text) ==
    /\ b_pc = "collect"
    /\ b_calls < BatchAttempts
    /\ Len(b_items) < BatchSize
    /\ b_calls' = b_calls + 1
    /\ b_items' = IF batch_accepts(text) THEN Append(b_items, text) ELSE b_items
    /\ UNCHANGED << cadence, k_last, k_prev, b_pc, b_emitted, recentVars,
                    storeVars, procVars, genVars, postVars, lockVars, ioVars >>

\* What a generation call of the batch routine may answer: a new text, a
\* recent post, or an item it has answered before.
BatchAnswers ==
    { Fresh(Len(b_items) + 1) } \cup recent_set \cup { b_items[i] : i \in 1..Len(b_items) }

\* The batch routine ends: the items collected are emitted as one batch and
\* the counter is reset.
batch_emit ==
    /\ b_pc = "collect"
    /\ Len(b_items) = BatchSize \/ b_calls = BatchAttempts
    /\ b_emitted' = Append(b_emitted, [items |-> b_items, calls |-> b_calls])
    /\ k_prev' = cadence
    /\ k_last' = "batch"
    /\ cadence' = 0
    /\ b_pc' = "idle"
    /\ b_calls' = 0
    /\ b_items' = << >>
    /\ UNCHANGED << recentVars, storeVars, procVars, genVars, postVars, lockVars, ioVars >>

batch_step ==
    \/ \E text \in BatchAnswers : batch_generate(text)
    \/ batch_emit

NextCadence ==
    \/ \E outcome \in PostOutcomes : single_post(outcome)
    \/ \E text \in BatchAnswers : batch_generate(text)
    \/ batch_emit

\* The batch routine runs on once it has started: an invocation is one
\* run-to-completion operation.
SpecCadence == Init /\ [][NextCadence]_vars /\ WF_vars(batch_step)


\* ------------------------------------------ locked updates of the state files

\* The bound of the updates one invocation begins.
MaxRounds == 2

\* The text invocation p posts in its n-th round.
LockText(p, n) == << "p", Digits[p], Digits[n] >>

\* An acquire that does not look at the lock.
lock_free_unchecked(f) == TRUE

\* The exclusive lock of state file f can be taken.
lock_free(f) == lk[f] = 0

\* What is stored in the state files.
StateStored == [recent |-> recent, cadence |-> cadence]

\* read-or-default
state_read(f) == IF l_exists[f] THEN StateStored ELSE StateDefault

\* The mutation of state file f by a successful post of text.
state_mutate(f, st, text) ==
    IF f = "recent" THEN [st EXCEPT !.recent = recency_append(st.recent, text)]
    ELSE [st EXCEPT !.cadence = st.cadence + 1]

\* A successful post is to be recorded: the recent-posts list first.
l_begin(p) ==
    /\ l_pc[p] = "idle"
    /\ l_round[p] < MaxRounds
    /\ l_round' = [l_round EXCEPT ![p] = l_round[p] + 1]
    /\ l_file' = [l_file EXCEPT ![p] = "recent"]
    /\ l_pc' = [l_pc EXCEPT ![p] = "want"]
    /\ UNCHANGED << lk, l_exists, l_local, l_commits, cadVars, recentVars,
                    storeVars, procVars, genVars, postVars, ioVars >>

\* acquire: blocks while another invocation holds the lock
l_acquire(p) ==
    /\ l_pc[p] = "want"
    /\ lock_free(l_file[p])
    /\ lk' = [lk EXCEPT ![l_file[p]] = p]
    /\ l_pc' = [l_pc EXCEPT ![p] = "locked"]
    /\ UNCHANGED << l_exists, l_file, l_local, l_round, l_commits, cadVars, recentVars,
                    storeVars, procVars, genVars, postVars, ioVars >>

l_read(p) ==
    /\ l_pc[p] = "locked"
    /\ l_local' = [l_local EXCEPT ![p] = state_read(l_file[p])]
    /\ l_pc' = [l_pc EXCEPT ![p] = "read"]
    /\ UNCHANGED << lk, l_exists, l_file, l_round, l_commits, cadVars, recentVars,
                    storeVars, procVars, genVars, postVars, ioVars >>

\* mutate, or fail before anything is written
l_mutate(p, ok) ==
    /\ l_pc[p] = "read"
    /\ IF ok
       THEN /\ l_local' = [l_local EXCEPT ![p] =
                               state_mutate(l_file[p], l_local[p], LockText(p, l_round[p]))]
            /\ l_pc' = [l_pc EXCEPT ![p] = "mutated"]
       ELSE /\ l_pc' = [l_pc EXCEPT ![p] = "failed"]
            /\ UNCHANGED l_local
    /\ UNCHANGED << lk, l_exists, l_file, l_round, l_commits, cadVars, recentVars,
                    storeVars, procVars, genVars, postVars, ioVars >>

l_write(p) ==
    /\ l_pc[p] = "mutated"
    /\ IF l_file[p] = "recent"
       THEN recent' = l_local[p].recent /\ UNCHANGED cadence
       ELSE cadence' = l_local[p].cadence /\ UNCHANGED recent
    /\ l_exists' = [l_exists EXCEPT ![l_file[p]] = TRUE]
    /\ l_commits' = [l_commits EXCEPT ![l_file[p]] = Append(@, LockText(p, l_round[p]))]
    /\ l_pc' = [l_pc EXCEPT ![p] = "written"]
    /\ UNCHANGED << lk, l_file, l_local, l_round, r_log, r_fails,
                    k_last, k_prev, b_pc, b_calls, b_items, b_emitted,
                    storeVars, procVars, genVars, postVars, ioVars >>

\* release, whether the update was written or failed; then the counter's
\* file, or the end of the invocation
l_release(p) ==
    /\ l_pc[p] \in {"written", "failed"}
    /\ lk' = [lk EXCEPT ![l_file[p]] = 0]
    /\ IF l_pc[p] = "written" /\ l_file[p] = "recent"
       THEN /\ l_file' = [l_file EXCEPT ![p] = "cadence"]
            /\ l_pc' = [l_pc EXCEPT ![p] = "want"]
       ELSE /\ l_pc' = [l_pc EXCEPT ![p] = "idle"]
            /\ UNCHANGED l_file
    /\ UNCHANGED << l_exists, l_local, l_round, l_commits, cadVars, recentVars,
                    storeVars, procVars, genVars, postVars, ioVars >>

NextLock ==
    \/ \E p \in Procs : l_begin(p)
    \/ \E p \in Procs : l_acquire(p)
    \/ \E p \in Procs : l_read(p)
    \/ \E p \in Procs, ok \in BOOLEAN : l_mutate(p, ok)
    \/ \E p \in Procs : l_write(p)
    \/ \E p \in Procs : l_release(p)

SpecLock == Init /\ [][NextLock]_vars


\* ------------------------------------------------------ fetch_quote_rotating

\* Optional[str]: None, or a text.
F_None == [some |-> FALSE, text |-> << >>]
F_Text(t) == [some |-> TRUE, text |-> t]

\* if q:  (None and "" are both false)
Truthy(q) == q.some /\ q.text # << >>

Sources == {"ZenQuotesSource", "WikiSummarySource", "GutenbergStoicSource"}

\* random.shuffle(sources): every order of the three sources.
Shuffles ==
    { o \in [1..3 -> Sources] : \A i, j \in 1..3 : i # j => o[i] # o[j] }

\* ZenQuotesSource.fetch: q.strip() of the first item, None when the request
\* raises, when the answer is no list or an empty one, or when q is missing.
zen_fetch(resp) ==
    IF resp.kind = "error" THEN F_None
    ELSE IF resp.kind # "list" THEN F_None
    ELSE IF resp.q = << >> THEN F_None
    ELSE F_Text(Strip(resp.q))

\* re.split(r"(?<=[.!?])\s+", txt)[0]
FirstSentence(txt) ==
    LET ends == { i \in 1..(Len(txt) - 1) :
                      txt[i] \in {".", "!", "?"} /\ txt[i + 1] \in Whitespace }
    IN IF ends = {} THEN txt
       ELSE SubSeq(txt, 1, CHOOSE i \in ends : \A j \in ends : i <= j)

WikiWidth == 240

\* WikiSummarySource.fetch: the first sentence of the extract, cut at 240.
wiki_fetch(resp) ==
    IF resp.kind = "error" THEN F_None
    ELSE LET txt == Strip(resp.extract)
         IN IF txt = << >> THEN F_None
            ELSE IF FirstSentence(txt) = << >> THEN F_None
            ELSE F_Text(Slice(FirstSentence(txt), WikiWidth))

\* len(p.strip().split())
WordCount(p) ==
    LET c == CollapseWs(Strip(p))
    IN IF c = << >> THEN 0
       ELSE 1 + Cardinality({ i \in 1..Len(c) : c[i] = " " })

MinWords == 8

\* GutenbergStoicSource.fetch: one of the paragraphs of more than 8 words,
\* its whitespace collapsed (the paragraphs here fit the width of
\* textwrap.shorten, which then returns them as they are); None when the
\* request raises or no paragraph is long enough.
gutenberg_fetch(resp) ==
    IF resp.kind = "error" THEN { F_None }
    ELSE LET paras == { Strip(p) : p \in { q \in resp.paras : WordCount(q) > MinWords } }
         IN IF paras = {} THEN { F_None }
            ELSE { F_Text(Strip(CollapseWs(p))) : p \in paras }

\* What the servers answer.
ZenResponses ==
    { [kind |-> "error"], [kind |-> "dict"],
      [kind |-> "list", q |-> << >>],
      [kind |-> "list", q |-> << " " >>],
      [kind |-> "list", q |-> << "x" >>],
      [kind |-> "list", q |-> << " ", "z", "EM", "y" >>] }

WikiResponses ==
    { [kind |-> "error"],
      [kind |-> "ok", extract |-> << >>],
      [kind |-> "ok", extract |-> << " " >>],
      [kind |-> "ok", extract |-> << "u", "?" >>],
      [kind |-> "ok", extract |-> << "w", ".", " ", "v", "." >>] }

NineWords == << "a", " ", "b", " ", "c", " ", "d", " ", "e", " ", "f", " ", "g", "TAB",
                " ", "h", " ", "i" >>

GutenbergResponses ==
    { [kind |-> "error"],
      [kind |-> "ok", paras |-> { << "t", " ", "u" >> }],
      [kind |-> "ok", paras |-> { << "t", " ", "u" >>, NineWords }] }

\* cls().fetch(), for what the server of cls answers.
source_fetch(cls) ==
    IF cls = "ZenQuotesSource" THEN { zen_fetch(resp) : resp \in ZenResponses }
    ELSE IF cls = "WikiSummarySource" THEN { wiki_fetch(resp) : resp \in WikiResponses }
    ELSE UNION { gutenberg_fetch(resp) : resp \in GutenbergResponses }

\* sources = [...]; random.shuffle(sources)
fetch_begin(order) ==
    /\ f_pc = "idle"
    /\ f_order' = order
    /\ f_tried' = << >>
    /\ f_ret' = F_None
    /\ f_pc' = "loop"
    /\ UNCHANGED << pollVars, normVars, cadVars, lockVars, recentVars, storeVars, procVars,
                    genVars, postVars >>

\* A loop that goes on to the next source whatever the last one returned.
fetch_goes_on_always(q) == TRUE

\* if q: return q  -- the loop goes on when q is None or empty
fetch_goes_on(q) == ~Truthy(q)

\* One iteration of the for loop: q = cls().fetch(); if q: return q
fetch_source(q) ==
    /\ f_pc = "loop"
    /\ Len(f_tried) < Len(f_order)
    /\ q \in source_fetch(f_order[Len(f_tried) + 1])
    /\ f_tried' = Append(f_tried, [cls |-> f_order[Len(f_tried) + 1], q |-> q])
    /\ IF fetch_goes_on(q)
       THEN UNCHANGED << f_pc, f_ret >>
       ELSE f_pc' = "done" /\ f_ret' = q
    /\ UNCHANGED << f_order, pollVars, normVars, cadVars, lockVars, recentVars, storeVars, procVars,
                    genVars, postVars >>

\* The loop is through: return None
fetch_exhausted ==
    /\ f_pc = "loop"
    /\ Len(f_tried) = Len(f_order)
    /\ f_pc' = "done"
    /\ f_ret' = F_None
    /\ UNCHANGED << f_order, f_tried, pollVars, normVars, cadVars, lockVars, recentVars, storeVars,
                    procVars, genVars, postVars >>

\* The caller has the result.
fetch_return ==
    /\ f_pc = "done"
    /\ f_pc' = "idle"
    /\ UNCHANGED << f_order, f_tried, f_ret, pollVars, normVars, cadVars, lockVars, recentVars,
                    storeVars, procVars, genVars, postVars >>

FetchAnswers == UNION { source_fetch(cls) : cls \in Sources }

NextFetch ==
    \/ \E order \in Shuffles : fetch_begin(order)
    \/ \E q \in FetchAnswers : fetch_source(q)
    \/ fetch_exhausted
    \/ fetch_return

SpecFetch == Init /\ [][NextFetch]_vars


\* ------------------------------------------------------- _format_fact_out

\* The bound of the length of the texts tried.
MaxNormLen == 3

NormAlphabet == {" ", "DQUOTE", "a", ".", "?", "-"}

\* What an engine may answer: every short text over the alphabet, an echoed
\* role marker, and facts that have the leading phrase already.
NormInputs ==
    UNION { [1..n -> NormAlphabet] : n \in 1..MaxNormLen }
    \cup { Marker, Marker \o << " ", "a" >>,
           Marker \o << " " >> \o Marker \o << " ", "a" >>,
           Prefix \o << "a" >>,
           LowerText(Prefix) \o << "a", "." >>,
           << "D", "I", "D", " ", "y", "o", "u", " ", "k", "n", "o", "w", " ", "a", "?" >>,
           << "DQUOTE" >> \o Prefix \o << "a", ".", "DQUOTE" >>,
           << "BTICK", "a", "BTICK" >>, << "'", "a", "'" >>, << "*", " ", "a" >> }

\* self._format_fact_out(text)
format_call(raw) ==
    /\ n_raw' = raw
    /\ n_out' = format_fact_out(raw)
    /\ UNCHANGED << fetchVars, pollVars, cadVars, lockVars, recentVars, storeVars, procVars,
                    genVars, postVars >>

NextNorm == \E raw \in NormInputs : format_call(raw)

SpecNorm == Init /\ [][NextNorm]_vars


\* ------------------------------------------- the poll loops of AIImageClient

HordePolls == 60
ComfyTimeoutDefault == 60

\* The values of comfy_timeout_s (COMFY_TIMEOUT_S).
ComfyTimeouts == {0, 2, ComfyTimeoutDefault}

\* The loop is entered: for _ in range(60) in _await_and_fetch, for _ in
\* range(self.config.comfy_timeout_s) in _generate_comfy.
poll_begin(kind, timeout) ==
    /\ i_pc = "idle"
    /\ i_kind' = kind
    /\ i_budget' = IF kind = "horde" THEN HordePolls ELSE timeout
    /\ i_polls' = 0
    /\ i_waits' = 0
    /\ i_last' = "none"
    /\ i_ret' = "none"
    /\ i_pc' = "poll"
    /\ UNCHANGED << fetchVars, normVars, cadVars, lockVars, recentVars, storeVars, procVars,
                    genVars, postVars >>

\* The sleeps of one iteration of the comfy loop: time.sleep(1) stands after
\* the loop, not in it.
comfy_sleeps(outcome) == 0

\* One iteration of the loop of _await_and_fetch: the status request answers
\* 404 ("gone"), fails ("error": raise_for_status raises, generate catches),
\* brings the image, or none yet ("pending": time.sleep(1)).
horde_poll(outcome) ==
    /\ i_pc = "poll"
    /\ i_kind = "horde"
    /\ i_polls < i_budget
    /\ i_polls' = i_polls + 1
    /\ i_last' = outcome
    /\ IF outcome = "pending"
       THEN /\ i_waits' = i_waits + 1
            /\ UNCHANGED << i_pc, i_ret >>
       ELSE /\ i_pc' = "done"
            /\ i_ret' = IF outcome = "image" THEN "image" ELSE "none"
            /\ UNCHANGED i_waits
    /\ UNCHANGED << i_kind, i_budget, fetchVars, normVars, cadVars, lockVars, recentVars,
                    storeVars, procVars, genVars, postVars >>

\* One iteration of the loop of _generate_comfy: the history request fails
\* ("error": caught, None), brings the image, or none yet ("pending").
comfy_poll(outcome) ==
    /\ i_pc = "poll"
    /\ i_kind = "comfy"
    /\ i_polls < i_budget
    /\ i_polls' = i_polls + 1
    /\ i_last' = outcome
    /\ i_waits' = i_waits + comfy_sleeps(outcome)
    /\ IF outcome = "pending"
       THEN UNCHANGED << i_pc, i_ret >>
       ELSE /\ i_pc' = "done"
            /\ i_ret' = IF outcome = "image" THEN "image" ELSE "none"
    /\ UNCHANGED << i_kind, i_budget, fetchVars, normVars, cadVars, lockVars, recentVars,
                    storeVars, procVars, genVars, postVars >>

\* The loop is through: return None, in _generate_comfy after time.sleep(1).
poll_exhausted ==
    /\ i_pc = "poll"
    /\ i_polls >= i_budget
    /\ i_waits' = IF i_kind = "comfy" THEN i_waits + 1 ELSE i_waits
    /\ i_ret' = "none"
    /\ i_pc' = "done"
    /\ UNCHANGED << i_kind, i_budget, i_polls, i_last, fetchVars, normVars, cadVars, lockVars,
                    recentVars, storeVars, procVars, genVars, postVars >>

\* The caller has the result.
poll_return ==
    /\ i_pc = "done"
    /\ i_pc' = "idle"
    /\ UNCHANGED << i_kind, i_budget, i_polls, i_waits, i_last, i_ret, fetchVars, normVars,
                    cadVars, lockVars, recentVars, storeVars, procVars, genVars, postVars >>

NextPoll ==
    \/ \E kind \in {"horde", "comfy"}, timeout \in ComfyTimeouts : poll_begin(kind, timeout)
    \/ \E outcome \in {"pending", "image", "gone", "error"} : horde_poll(outcome)
    \/ \E outcome \in {"pending", "image", "error"} : comfy_poll(outcome)
    \/ poll_exhausted
    \/ poll_return

SpecPoll == Init /\ [][NextPoll]_vars


\* ------------------------------------------------ picking and marking in turn

\* The wall clock of a rotation runs from 0 to RotClock ticks.
RotClock == 6
\* Most mark_posted calls of a rotation.
RotMarks == 5
\* cooldown_days of a rotation is 1 or RotCooldown.
RotCooldown == 4

\* The store is filled before the first pick.
rot_ingest(c) ==
    /\ TotalMarks = 0
    /\ ret.op # "pick"
    /\ ingest_quote_records(Main, << c >>, "apis")

\* A later invocation: a new store instance, which loads the file.
rot_new ==
    /\ ret.op # "pick"
    /\ NewStore(Main)

\* pick_for_post(cooldown_days), the time elapsed being below the cooldown.
rot_pick(cd) ==
    /\ ret.op # "pick"
    /\ now < timedelta_days(cd)
    /\ pick_for_post(Main, cd)

\* mark_posted of the record the pick returned, later than every mark before.
rot_mark ==
    /\ ret.op = "pick"
    /\ ret.idx # 0
    /\ TotalMarks < RotMarks
    /\ \A id \in DOMAIN calls : calls[id].at < now
    /\ mark_posted_call(Main, ret.idx)

\* Time passes, between a pick and its mark as well.
rot_elapse ==
    /\ now < RotClock
    /\ now' = now + 1
    /\ UNCHANGED << fs_store, fs_tmp, records, by_norm, loaded, next_id, ret, calls,
                    procVars, genVars, recentVars, sideVars, postVars >>

NextRotate ==
    \/ \E c \in PlainCands : rot_ingest(c)
    \/ rot_new
    \/ \E cd \in {1, RotCooldown} : rot_pick(cd)
    \/ rot_mark
    \/ rot_elapse

SpecRotate == Init /\ [][NextRotate]_vars

\* ------------------------------------------------ the store file, written and read

\* Candidate quotes whose text or author holds what the file format gives a
\* meaning to: the delimiter, the quote character, line ends, outer blanks.
CsvCands ==
    { Cand(<< "a", ",", "DQUOTE", "b" >>, << "S", ",", "J" >>),
      Cand(<< "DQUOTE", "a", "DQUOTE" >>, << "DQUOTE" >>),
      Cand(<< " ", "b", "CR", "NL", "a", " " >>, << " ", "S" >>) }

\* The batches of the file specification: one candidate, or two.
CsvBatches ==
    { << c >> : c \in CsvCands }
    \cup { << Cand(<< "a", ",", "DQUOTE", "b" >>, << "S", ",", "J" >>),
             Cand(<< "DQUOTE", "a", "DQUOTE" >>, << "DQUOTE" >>) >> }

\* The wall clock of the file specification runs from 0 to PersistClock ticks.
PersistClock == 1

\* The wall clock advances.
persist_tick ==
    /\ now < PersistClock
    /\ Tick

\* Ingest, mark_posted and new instances over such texts, one invocation at a
\* time.
NextPersist ==
    \/ NewStore(Main)
    \/ \E b \in CsvBatches : ingest_quote_records(Main, b, "q.csv")
    \/ \E i \in 1..MaxRecords : mark_posted(Main, i)
    \/ persist_tick

SpecPersist == Init /\ [][NextPersist]_vars

\* ------------------------------------------------- claims on the quote store

Recs == records[Main]

\* C1 -- the text as the claim identifies it: letter case, leading, trailing
\* and repeated whitespace, the kind of dash and the kind of quote folded.
ClaimKey(text) ==
    LET QuoteChar(c) == IF c = "RSQUO" THEN "'" ELSE c
        folded == CollapseWs(ReplaceDashes(Lower(Strip(text))))
    IN [i \in 1..Len(folded) |-> QuoteChar(folded[i])]

\* C1: ingesting a variant T' of a text T already in the store (differing only
\* in case, whitespace, em/en dash versus hyphen, or curly versus straight
\* quotes) reports one duplicate, adds nothing, and the record count stays.
C1_VariantIsDuplicate ==
    ( /\ ret.op = "ingest"
      /\ Len(ret.batch) = 1
      /\ \E i \in 1..ret.before :
            ClaimKey(Recs[i].text) = ClaimKey(ret.batch[1].text) )
    => ( ret.duplicates = 1 /\ ret.added = 0 /\ Len(Recs) = ret.before )

\* C2: no two records have equal normalized text, in memory and in the file,
\* and the index maps each normalized text to the one record holding it.
C2_Uniqueness ==
    /\ \A i, j \in 1..Len(Recs) :
          normalize_text(Recs[i].text) = normalize_text(Recs[j].text) => i = j
    /\ loaded[Main] =>
          /\ DOMAIN by_norm[Main] = { normalize_text(Recs[i].text) : i \in 1..Len(Recs) }
          /\ \A i \in 1..Len(Recs) : by_norm[Main][normalize_text(Recs[i].text)] = i
    /\ LET rows == ReadRows(fs_store.lines)
       IN \A i, j \in 1..Len(rows) :
             normalize_text(rows[i].text) = normalize_text(rows[j].text) => i = j

\* C2 witness: a new instance loaded a file of two records, one of them
\* posted, and its ingest turned a variant away as a duplicate.
C2_Witness ==
    /\ ret.op = "ingest" /\ ret.did_load /\ ret.before = 2
    /\ ret.duplicates = 1 /\ ret.added = 0
    /\ \E i \in 1..Len(Recs) : Recs[i].times_posted > 0

\* C3 -- eligibility as the claim words it: never posted, or posted strictly
\* more than cooldown_days before now.
StrictlyEligible(r, cd, t) ==
    \/ r.last_posted_at = << >>
    \/ t - fromisoformat(r.last_posted_at) > timedelta_days(cd)

\* C3 -- eligibility with the boundary included: never posted, or posted at
\* least cooldown_days before now.
AtLeastEligible(r, cd, t) ==
    \/ r.last_posted_at = << >>
    \/ t - fromisoformat(r.last_posted_at) >= timedelta_days(cd)

OnlyNeverPosted == Len(Recs) = 1 /\ Recs[1].last_posted_at = << >>

\* C3 as claimed: with "eligible" meaning never posted or posted strictly more
\* than cooldown_days ago, pick_for_post returns an eligible record whenever
\* one exists, and a single never-posted record is returned for every cooldown.
C3_StrictCooldown ==
    ret.op = "pick" =>
        /\ (\E i \in 1..Len(Recs) : StrictlyEligible(Recs[i], ret.cd, now))
              => ret.idx # 0 /\ StrictlyEligible(Recs[ret.idx], ret.cd, now)
        /\ OnlyNeverPosted => ret.idx = 1

\* C3 amended: with "eligible" meaning never posted or posted at least
\* cooldown_days ago, pick_for_post returns an eligible record whenever one
\* exists, and a single never-posted record is returned for every cooldown.
C3_Cooldown ==
    ret.op = "pick" =>
        /\ (\E i \in 1..Len(Recs) : AtLeastEligible(Recs[i], ret.cd, now))
              => ret.idx # 0 /\ AtLeastEligible(Recs[ret.idx], ret.cd, now)
        /\ OnlyNeverPosted => ret.idx = 1

\* C3 witness: a pick with a positive cooldown, one record inside the
\* cooldown and another outside it.
C3_Witness ==
    /\ ret.op = "pick" /\ ret.cd > 0 /\ ret.idx # 0
    /\ \E i, j \in 1..Len(Recs) :
          /\ ~AtLeastEligible(Recs[i], ret.cd, now)
          /\ AtLeastEligible(Recs[j], ret.cd, now)
          /\ Recs[j].last_posted_at # << >>

\* C4 -- the instant of the last post, an empty one older than any timestamp.
LastPostedInstant(r) ==
    IF r.last_posted_at = << >> THEN -1 ELSE fromisoformat(r.last_posted_at)

\* C4: when the store is not empty and no record is eligible, pick_for_post
\* returns a record whose last_posted_at is the oldest of all records.
C4_FallbackOldest ==
    ( /\ ret.op = "pick"
      /\ Recs # << >>
      /\ \A i \in 1..Len(Recs) : ~StrictlyEligible(Recs[i], ret.cd, now) )
    => ( /\ ret.idx # 0
         /\ \A j \in 1..Len(Recs) :
               LastPostedInstant(Recs[ret.idx]) <= LastPostedInstant(Recs[j]) )

\* C4 witness: the fallback chose the second record, posted before the first.
C4_Witness ==
    /\ ret.op = "pick" /\ Len(Recs) >= 2 /\ ret.idx = 2
    /\ \A i \in 1..Len(Recs) : ~AtLeastEligible(Recs[i], ret.cd, now)
    /\ LastPostedInstant(Recs[2]) < LastPostedInstant(Recs[1])

\* C5: pick_for_post returns none exactly when the store holds no record, and
\* otherwise one of the store's records.
C5_NoneIffEmpty ==
    ret.op = "pick" =>
        /\ ret.idx = 0 <=> Recs = << >>
        /\ ret.idx \in 0..Len(Recs)

\* C5 witness: a record returned although every record is inside the cooldown.
C5_Witness ==
    /\ ret.op = "pick" /\ ret.idx # 0
    /\ \A i \in 1..Len(Recs) : ~AtLeastEligible(Recs[i], ret.cd, now)

\* C6: a record's times_posted is the number of mark_posted calls made on it,
\* and its last_posted_at is the time of the latest of them, in memory and in
\* the file.
C6_MarkPostedCounts ==
    LET Right(r) ==
            /\ r.times_posted = calls[r.id].n
            /\ r.last_posted_at =
                  (IF calls[r.id].n = 0 THEN << >> ELSE utc_iso(calls[r.id].at))
        rows == ReadRows(fs_store.lines)
    IN /\ \A i \in 1..Len(Recs) : Right(Recs[i])
       /\ \A i \in 1..Len(rows) : Right(rows[i])

\* C6 witness: a record ingested at time 0 has been marked twice, the second
\* time at time 2.
C6_Witness ==
    /\ ret.op = "mark"
    /\ Recs[ret.idx].times_posted = 2
    /\ calls[Recs[ret.idx].id].at = 2
    /\ Recs[ret.idx].added_at = utc_iso(0)

\* A complete record table: the header line, then rows only.
IsTable(f) ==
    /\ f.exists
    /\ f.lines # << >>
    /\ Head(f.lines) = CSV_HEADER
    /\ \A k \in 2..Len(f.lines) : f.lines[k].kind = "row"

\* C7: wherever the process stops in the _persist of ingest or mark_posted,
\* the store file holds the complete table from before the call or the
\* complete table the call writes, never a partial or mixed one.
C7_CrashAtomic ==
    pc[Main] \in {"open", "write", "replace", "done", "crashed"} =>
        /\ IsTable(fs_store)
        /\ fs_store = pending[Main].before \/ fs_store = pending[Main].after

\* C7 witness: the process stopped after writing part of a table of two
\* records that differs from the store file.
C7_Witness ==
    /\ pc[Main] = "crashed"
    /\ fs_tmp.exists
    /\ Len(fs_tmp.lines) = 2
    /\ Len(pending[Main].after.lines) = 3
    /\ Len(pending[Main].before.lines) = 3
    /\ pending[Main].before # pending[Main].after
    /\ fs_store = pending[Main].before

\* The persisted store by normalized text: how often each text was posted.
Persisted ==
    LET rows == ReadRows(fs_store.lines)
    IN [k \in { normalize_text(rows[i].text) : i \in 1..Len(rows) } |->
          (CHOOSE i \in 1..Len(rows) : normalize_text(rows[i].text) = k)]

PersistedCounts ==
    LET rows == ReadRows(fs_store.lines)
    IN [k \in DOMAIN Persisted |-> rows[Persisted[k]].times_posted]

\* C8: once the invocations have finished, the store file is a complete table
\* that holds what running them one after the other gives: every ingested
\* text, each with as many posts as mark_posted calls were made on it.
C8_Serialized ==
    (\A p \in Procs : pc[p] \in {"idle", "done", "failed"}) =>
        /\ fs_store.exists => IsTable(fs_store)
        /\ PersistedCounts = serial


AutoOrder == << "provider", "ollama", "hf", "fallback" >>
ExplicitEngines == {"provider", "ollama", "hf"}

IsPrefix(a, b) == Len(a) <= Len(b) /\ SubSeq(b, 1, Len(a)) = a

\* What generate makes of the text engine e returned.
ResultOf(e, text) ==
    IF e = "fallback" THEN truncate(text, g_limit)
    ELSE truncate(format_fact_out(text), g_limit)

\* C9: in "auto" mode the engines are invoked in the order provider, ollama,
\* hf, fallback; every engine is invoked only after all engines before it
\* returned nothing, and when generate has returned, its result is made from
\* what the last invoked engine returned, which is the first one in that
\* order that returned text (or the fallback), no engine being invoked after it.
C9_AutoOrder ==
    g_engine = "auto" =>
        /\ IsPrefix(g_calls, AutoOrder)
        /\ \A i \in 1..(Len(g_calls) - 1) :
               /\ i <= Len(g_returned)
               /\ g_returned[i] = << >>
        /\ g_pc = "done" =>
               /\ Len(g_returned) = Len(g_calls)
               /\ g_calls[Len(g_calls)] # "fallback" => g_returned[Len(g_calls)] # << >>
               /\ g_out = ResultOf(g_calls[Len(g_calls)], g_returned[Len(g_calls)])

\* An "auto" request the provider failed and the local model service answered.
C9_Witness ==
    /\ g_engine = "auto"
    /\ g_pc = "done"
    /\ g_calls = << "provider", "ollama" >>
    /\ g_returned[1] = << >>
    /\ g_out # << >>

\* C10 as stated: with an explicit engine (provider, ollama or hf) generate
\* invokes only that engine, and when it returned nothing the result is one
\* of the canned fallback lines, so the result is never empty.
C10_ExplicitFallsBack ==
    (g_engine \in ExplicitEngines /\ g_pc = "done") =>
        /\ g_calls = << g_engine >>
        /\ g_out # << >>
        /\ g_returned[1] = << >> =>
               \E line \in fallback_choices(g_limit) : g_out = truncate(line, g_limit)

\* C10, amended: with an explicit engine (provider, ollama or hf) generate
\* invokes only that engine; when it is unavailable or returned nothing the
\* result is the empty string and no fallback line is used, otherwise the
\* result is the engine's text, formatted and truncated, and is not empty.
C10_ExplicitOnly ==
    (g_engine \in ExplicitEngines /\ g_pc = "done") =>
        /\ g_calls = << g_engine >>
        /\ Len(g_returned) = 1
        /\ g_out = ResultOf(g_engine, g_returned[1])
        /\ g_returned[1] = << >> <=> g_out = << >>

\* The local model service, asked for explicitly, answered nothing.
C10_Witness ==
    /\ g_engine = "ollama"
    /\ g_pc = "done"
    /\ g_calls = << "ollama" >>
    /\ g_returned = << << >> >>
    /\ g_out = << >>

\* C11: generate in "auto" mode never returns an empty string, whatever the
\* length limit and whatever the engines answered.
C11_AutoNeverEmpty ==
    (g_engine = "auto" /\ g_pc = "done") => Len(g_out) >= 1

\* The effective limit the specification gives for a configured limit.
EffectiveLimit(max_length) == Min(Max(max_length, 1), HardLimit)

\* The full texts generate may have selected from: the formatted output of
\* the engine that answered, or any of the whole canned lines.
FullTexts ==
    IF g_calls[Len(g_calls)] = "fallback"
    THEN { facts[i] : i \in 1..Len(facts) }
    ELSE { format_fact_out(g_returned[Len(g_returned)]) }

\* C12: the text generate returns is exactly the first min(max(L, 1), 275)
\* characters of the selected full text, for every limit L, engine choice and
\* engine output; so its length is at most 275 and with L = 0 it is cut to 1
\* character.
C12_TruncationClamp ==
    g_pc = "done" =>
        /\ \E full \in FullTexts :
               g_out = SubSeq(full, 1, Min(EffectiveLimit(g_limit), Len(full)))
        /\ Len(g_out) <= 275

\* C13: within one request the provider is called at most 5 times; every
\* call but the last raised or answered nothing, a call that answers text is
\* the last one and its text is what the engine returns, and the engine
\* returns nothing to generate only when it was unavailable (no call) or all
\* 5 calls failed. No error reaches the caller: generate goes on or returns.
C13_ProviderAttempts ==
    /\ Len(g_tries) <= 5
    /\ \A i \in 1..(Len(g_tries) - 1) : g_tries[i] \in {"raise", "empty"}
    /\ (g_pc = "provider" /\ g_tries # << >>) =>
           /\ g_tries[Len(g_tries)] \in {"raise", "empty"}
           /\ Len(g_tries) < 5
    /\ (g_tries # << >> /\ g_pc # "provider") =>
           /\ g_calls[1] = "provider"
           /\ IF g_tries[Len(g_tries)] = "text"
              THEN g_returned[1] # << >>
              ELSE Len(g_tries) = 5 /\ g_returned[1] = << >>

\* All five provider calls failed and generate went on to the next engine.
C13_Witness ==
    /\ Len(g_tries) = 5
    /\ "raise" \in { g_tries[i] : i \in 1..5 }
    /\ "empty" \in { g_tries[i] : i \in 1..5 }
    /\ g_engine = "auto"
    /\ g_pc = "ollama"
    /\ g_returned = << << >> >>

\* --------------------------------------------- claims on the posting client

RateLimited == { i \in 1..Len(t_api) : t_api[i].outcome = "rate" }

\* C17: post_tweet calls the platform at most 3 times per text; every call
\* but the last was rate-limited and was followed by a wait and another
\* call; after a rate-limited call the loop goes on unless it was the 3rd,
\* so None is returned for rate-limiting only after 3 rate-limited calls; any
\* other error or answer ends the call at once; a success returns the id; and
\* post_tweet always returns (no error reaches the caller).
C17_PostTweetAttempts ==
    /\ Len(t_api) <= 3
    /\ \A i \in 1..(Len(t_api) - 1) : t_api[i].outcome = "rate"
    /\ Len(t_waits) = Cardinality(RateLimited)
    /\ t_pc = "try" =>
           /\ Len(t_api) < 3
           /\ t_api # << >> => t_api[Len(t_api)].outcome = "rate"
    /\ (t_pc = "done" /\ t_api # << >>) =>
           LET last == t_api[Len(t_api)].outcome
           IN /\ last = "ok" => t_result = TweetId
              /\ last # "ok" => t_result = NoId
              /\ last = "rate" => Len(t_api) = 3
    /\ t_pc \in {"idle", "called", "try", "done"}

\* Two rate-limited calls, then the third one succeeds.
C17_Witness ==
    /\ t_pc = "done"
    /\ Len(t_api) = 3
    /\ t_api[2].outcome = "rate"
    /\ t_api[3].outcome = "ok"
    /\ t_result = TweetId
    /\ Len(t_waits) = 2

\* ---------------------------------------------- claims on the CLI operations

CliEnded == c_pc \in {"done", "raised"}
LastLine == IF c_out = << >> THEN "" ELSE c_out[Len(c_out)]
Printed(line) == \E i \in 1..Len(c_out) : c_out[i] = line

\* C14: in every posting operation run with effective dry-run true, the
\* posting collaborator is never called and no record is marked posted, while
\* the final text, once produced, is printed.
DryRunQuiet ==
    /\ c_sent = << >>
    /\ t_api = << >>
    /\ c_marked = << >>
    /\ c_pc \notin {"post_tweet", "upload", "after"}

C14_DryRunNoPost ==
    (c_dry /\ c_op # "none") =>
        /\ DryRunQuiet
        /\ (CliEnded /\ c_tweet # << >>) => Printed("text")

\* C15: in post-quote-image and post-auto-image mark_posted is called on the
\* picked record if and only if the text came from the store and the posting
\* collaborator returned an id; otherwise the record's times_posted and
\* last_posted_at are as they were when it was picked, in memory and in the file.
C15_MarkOnlyOnSuccess ==
    c_op \in {"post_auto_image", "post_quote_image"} =>
        /\ c_marked # << >> =>
               /\ c_marked = << c_pick >>
               /\ c_pick # 0
               /\ c_id # NoId
        /\ (c_pc = "done" /\ c_id # NoId /\ c_pick # 0) =>
               /\ c_marked = << c_pick >>
               /\ records[Main][c_pick] = marked(c_rec, now)
        /\ (CliEnded /\ c_pick # 0 /\ c_marked = << >>) =>
               /\ records[Main][c_pick] = c_rec
               /\ \E k \in 1..Len(fs_store.lines) : fs_store.lines[k] = Row(c_rec)

\* post-auto-image posted a stored quote and marked it.
C15_Witness ==
    /\ c_op = "post_auto_image"
    /\ c_pc = "done"
    /\ c_id = TweetId
    /\ c_pick # 0
    /\ c_marked = << c_pick >>
    /\ records[Main][c_pick].times_posted = c_rec.times_posted + 1
    /\ fs_store = Table(records[Main])

Blank(text) == Strip(text) = << >>

\* C16: no operation sends empty or blank text to the platform; post_tweet
\* returns None without a call of the platform for such text; and an
\* operation whose produced text is empty or blank ends with an error or skip
\* line and without a post.
C16_EmptyNeverPosted ==
    /\ \A i \in 1..Len(t_api) : ~Blank(t_api[i].text)
    /\ \A i \in 1..Len(c_sent) : c_sent[i].via = "upload" => ~Blank(c_sent[i].text)
    /\ (t_pc = "done" /\ Blank(t_text)) => (t_api = << >> /\ t_result = NoId)
    /\ (c_pc = "done" /\ c_op # "none" /\ Blank(c_tweet)) =>
           /\ LastLine \in {"error", "skip", "dry-run"}
           /\ c_id = NoId
           /\ t_api = << >>

\* post-text was given a blank text and asked to post it: post_tweet refused.
C16_Witness ==
    /\ c_op = "post_text"
    /\ ~c_dry
    /\ c_pc = "done"
    /\ c_tweet = << " " >>
    /\ c_out = << "text", "tweet-empty", "skip" >>
    /\ t_api = << >>

Fancy == {"EM", "EN", "LDQUO", "RDQUO", "LSQUO", "RSQUO"}

\* C18: every text handed to the posting collaborator holds no em dash, en
\* dash or curly quote and is at most min(max(limit, 1), 275) characters long.
C18_SanitizedAndTruncated ==
    \A i \in 1..Len(c_sent) :
        /\ \A k \in 1..Len(c_sent[i].text) : c_sent[i].text[k] \notin Fancy
        /\ Len(c_sent[i].text) <= Min(Max(c_limit, 1), 275)

\* C19: no collaborator failure ends an operation with an uncaught
\* exception: every operation runs to its end, and its last printed line is
\* the posted id, [skip], [error] or [dry-run].
C19_NoUncaughtException ==
    /\ c_pc # "raised"
    /\ (c_pc = "done" /\ c_op # "none") =>
           LastLine \in {"posted", "skip", "error", "dry-run"}

\* ------------------------------------------- claims on the recent-posts list

\* C20: the recent-posts list gets the text of every successful post, never
\* holds more than 200 entries, and always is the most recent posted texts in
\* posting order: the oldest entry is the one dropped when a 201st is stored.
C20_RecencyCapFifo ==
    /\ Len(recent) <= 200
    /\ Len(recent) = Min(Len(r_log), 200)
    /\ \A i \in 1..Len(recent) : recent[i] = r_log[Len(r_log) - Len(recent) + i]

\* The 201st text was stored and the first one posted was dropped for it.
C20_Witness ==
    /\ Len(r_log) = 201
    /\ Len(recent) = 200
    /\ recent[1] = r_log[2]
    /\ recent[1] # r_log[1]
    /\ recent[200] = r_log[201]

\* ------------------------------ claims on the cadence counter and the batch

\* C21: the cadence counter is never negative, goes up by exactly 1 on a
\* successful single post, is left alone by a failed, skipped or dry-run post,
\* and is reset to 0 exactly when it has reached 15 and a batch is triggered.
C21_CadenceCounter ==
    /\ cadence \in 0..15
    /\ k_last = "posted" => cadence = k_prev + 1
    /\ k_last \in {"failed", "skipped", "dry-run"} => cadence = k_prev
    /\ k_last = "batch" => (cadence = 0 /\ k_prev = 15)
    /\ (cadence = 15) <=> (b_pc = "collect")
    /\ cadence = Len(r_log) - 15 * Len(b_emitted)

\* The 15th single post triggered a batch, the counter was reset, and a later
\* post that failed left it alone.
C21_Witness ==
    /\ Len(b_emitted) = 1
    /\ Len(r_log) = 17
    /\ cadence = 2
    /\ k_last = "failed"
    /\ k_prev = 2

BatchSafe ==
    /\ b_calls <= 50
    /\ Len(b_items) <= 10
    /\ \A i \in 1..Len(b_items) : \A j \in 1..Len(recent) : b_items[i] # recent[j]
    /\ \A n \in 1..Len(b_emitted) :
           /\ b_emitted[n].calls <= 50
           /\ Len(b_emitted[n].items) <= 10
           /\ Len(b_emitted[n].items) < 10 => b_emitted[n].calls = 50
           /\ \A i \in 1..Len(b_emitted[n].items) : \A j \in 1..(15 * n) :
                  b_emitted[n].items[i] # r_log[j]
    /\ Len(b_emitted) + (IF b_pc = "collect" THEN 1 ELSE 0) = Len(r_log) \div 15

\* With 10 items collected the routine makes no further call: it emits.
StopAtTen == (b_pc = "collect" /\ Len(b_items) = 10) => b_pc' = "idle"

\* C22: the batch routine makes at most 50 generation calls, stops as soon as
\* it has 10 items, never takes an item equal to a recent-posts entry, and
\* always ends by emitting one batch with what it has collected (fewer than
\* 10 items only when the 50 calls are used up), once per trigger.
C22_BatchRoutine ==
    /\ []BatchSafe
    /\ [][StopAtTen]_vars
    /\ (b_pc = "collect") ~> (b_pc = "idle")

\* A batch was emitted with fewer than 10 items after 50 calls.
C22_Witness ==
    \E n \in 1..Len(b_emitted) :
        /\ b_emitted[n].calls = 50
        /\ Len(b_emitted[n].items) \in 1..9

\* ----------------------------------- claims on the locks of the state files

LockHeld == {"locked", "read", "mutated", "written", "failed"}

\* C23: an update of the recent-posts list or of the cadence counter is
\* acquire, read or default, mutate, write, release under the file's exclusive
\* lock: whatever the interleaving of two invocations, the stored state holds
\* every update written, and an invocation that is through holds no lock.
C23_LockedReadModifyWrite ==
    /\ \A p \in Procs : (l_pc[p] \in LockHeld) <=> (lk[l_file[p]] = p)
    /\ \A f \in StateFiles : lk[f] # 0 => l_pc[lk[f]] \in LockHeld /\ l_file[lk[f]] = f
    /\ recent = l_commits["recent"]
    /\ cadence = Len(l_commits["cadence"])
    /\ (\A p \in Procs : l_pc[p] = "idle") => (\A f \in StateFiles : lk[f] = 0)

\* Both invocations have recorded a post, the second while the first was
\* between its two files, and all locks are free again.
C23_Witness ==
    /\ \A p \in Procs : l_pc[p] = "idle" /\ l_round[p] = 1
    /\ recent = << LockText(1, 1), LockText(2, 1) >>
    /\ l_commits["cadence"] = << LockText(2, 1), LockText(1, 1) >>
    /\ cadence = 2
    /\ \A f \in StateFiles : lk[f] = 0

\* ------------------------------------------- claims on fetch_quote_rotating

AllFailed == \A i \in 1..Len(f_tried) : ~Truthy(f_tried[i].q)

\* C24: fetch_quote_rotating calls the fetch of each source at most once, in
\* the shuffled order; it returns the first text that is not empty without
\* calling the sources after it; it returns None exactly when all three
\* returned nothing; and it never raises.
C24_FetchRotating ==
    /\ f_pc # "raised"
    /\ Len(f_tried) <= 3
    /\ \A i \in 1..Len(f_tried) : f_tried[i].cls = f_order[i]
    /\ \A i, j \in 1..Len(f_tried) : i # j => f_tried[i].cls # f_tried[j].cls
    /\ \A i \in 1..(Len(f_tried) - 1) : ~Truthy(f_tried[i].q)
    /\ f_pc = "loop" => AllFailed
    /\ f_pc = "done" =>
           /\ Len(f_tried) >= 1
           /\ f_ret = (IF Truthy(f_tried[Len(f_tried)].q) THEN f_tried[Len(f_tried)].q ELSE F_None)
           /\ (f_ret = F_None) <=> (Len(f_tried) = 3 /\ AllFailed)
           /\ f_ret # F_None => (Truthy(f_ret) /\ Strip(f_ret.text) # << >>)

\* The first source returned an empty text, the second one a quote, and the
\* third was not asked.
C24_Witness ==
    /\ f_pc = "done"
    /\ Len(f_tried) = 2
    /\ f_tried[1] = [cls |-> "ZenQuotesSource", q |-> F_Text(<< >>)]
    /\ f_tried[2].cls = "GutenbergStoicSource"
    /\ f_ret = F_Text(CollapseWs(NineWords))

\* ------------------------------------------- claims on the records' lifecycle

\* The records of the store: those of the instance once it has loaded, those
\* of the file before.
StoreRecs(mem, isLoaded, file) ==
    IF isLoaded THEN mem ELSE IF file.exists THEN ReadRows(file.lines) ELSE << >>

Identity(r) ==
    [id |-> r.id, text |-> r.text, author |-> r.author, source |-> r.source,
     added_at |-> r.added_at]

Posting(r) == [last_posted_at |-> r.last_posted_at, times_posted |-> r.times_posted]

\* One store call: no record goes away, the identity of a record stays, a
\* record appears only in ingest, and the posting fields change only in
\* mark_posted, only for the record it was given.
FrameStep ==
    LET old == StoreRecs(records[Main], loaded[Main], fs_store)
        new == StoreRecs(records'[Main], loaded'[Main], fs_store')
    IN /\ Len(new) >= Len(old)
       /\ Len(new) > Len(old) => ret'.op = "ingest"
       /\ \A i \in 1..Len(old) :
              /\ Identity(new[i]) = Identity(old[i])
              /\ Posting(new[i]) # Posting(old[i]) => (ret'.op = "mark" /\ ret'.idx = i)
       /\ fs_store'.exists => ReadRows(fs_store'.lines) = new

\* C25: records are created only by ingest, changed only by mark_posted and
\* never deleted: over any sequence of store calls the number of records
\* never goes down, id, text, author, source and added_at of a record never
\* change, and last_posted_at and times_posted change only in mark_posted and
\* only for the record passed to it.
C25_RecordLifecycle == [][FrameStep]_vars

\* Two records, made by ingest; only the second was marked, twice.
C25_Witness ==
    /\ Len(records[Main]) = 2
    /\ records[Main][1].times_posted = 0
    /\ records[Main][1].last_posted_at = << >>
    /\ records[Main][2].times_posted = 2
    /\ ret.op = "mark" /\ ret.idx = 2

\* One store call: a new instance reads nothing; a call on an instance reads
\* the backing file exactly when the instance has not loaded yet, and leaves
\* it loaded; a call that does not read keeps the records in memory.
LoadStep ==
    /\ ret'.op = "new" =>
           /\ ~loaded'[Main]
           /\ records'[Main] = << >>
           /\ fs_store' = fs_store
    /\ ret'.op \in {"ingest", "pick", "mark", "count"} =>
           /\ ret'.did_load = ~loaded[Main]
           /\ loaded'[Main]
           /\ ret'.did_load =>
                  \A i \in 1..Len(ReadRows(fs_store.lines)) :
                      i <= Len(records'[Main]) /\ records'[Main][i] = ReadRows(fs_store.lines)[i]
           /\ ~ret'.did_load =>
                  /\ Len(records'[Main]) >= Len(records[Main])
                  /\ \A i \in 1..Len(records[Main]) :
                         Identity(records'[Main][i]) = Identity(records[Main][i])

\* C26: the load is lazy and memoized per store instance: the backing file is
\* not read at construction, is read on the first call of ingest,
\* pick_for_post, mark_posted or count, and never again by a later call on
\* that instance.
C26_LazyMemoizedLoad == [][LoadStep]_vars

\* A new instance was made over a file of two records; its first call read
\* the file and this later call did not.
C26_Witness ==
    /\ ret.op = "count"
    /\ ~ret.did_load
    /\ ret.n = 2
    /\ loaded[Main]
    /\ ReadRows(fs_store.lines) = records[Main]
    /\ TotalMarks > 0

\* --------------------------------------------- claims on _format_fact_out

EndsWithMark(s) == EndsWith(s, << "." >>) \/ EndsWith(s, << "?" >>)
Periods(s) == Cardinality({ i \in 1..Len(s) : s[i] = "." })

\* C27: for every raw engine output that is not empty, the normalized text
\* begins with "Did you know " (whatever the case of the letters) and ends
\* with a period or a question mark, and a period was appended only to a
\* text that did not end with one of the two.
C27_OutputNormalization ==
    n_raw # << >> =>
        /\ StartsWith(LowerText(n_out), LowerText(Prefix))
        /\ EndsWithMark(n_out)
        /\ EndsWithMark(Strip(n_raw)) => Periods(n_out) <= Periods(n_raw)

\* ------------------------------------------------ claims on the poll loops

\* C28: each poll loop makes at most its fixed number of status requests (60
\* for the Horde, comfy_timeout_s for ComfyUI), waits the fixed interval
\* between two consecutive requests, and returns no image when the requests
\* are used up.
C28_PollLoopsBounded ==
    /\ i_kind = "horde" => i_polls <= 60
    /\ i_kind = "comfy" => i_polls <= i_budget
    /\ i_polls >= 2 => i_waits >= i_polls - 1
    /\ (i_pc = "done" /\ i_last \in {"none", "pending"}) =>
           (i_polls = i_budget /\ i_ret = "none")

\* ------------------------------------------- claims on the provider backoff

\* The provider calls of this request, among the first four, that brought no
\* text: each of them is followed by a retry.
Retried == { i \in 1..Min(Len(g_tries), ProviderAttempts - 1) : g_tries[i] \in {"raise", "empty"} }

\* C29: the backoff waits and the retries of the provider call correspond
\* one to one: each of the first four calls that raised or answered nothing
\* is followed by a wait of 0.75 s * 2^attempt (attempt counted from 0), and
\* there is no other wait, none after the 5th call.
C29_BackoffPerRetry ==
    /\ Len(g_waits) = Cardinality(Retried)
    /\ \A i \in 1..Len(g_waits) : g_waits[i] = backoff_delay(i - 1)

\* ------------------------------------------- claims on the choice of a pick

\* C30: the choice among eligible records has no preference: in every store
\* state and for every cooldown, each eligible record is one pick_for_post
\* may return, whatever its times_posted and its position in the store.
C30_NoPreference ==
    \A cd \in Cooldowns :
        \A e \in Eligible(Recs, cd, now) : e \in pick_choices(Recs, cd, now)

\* C30 witness: a pick returned an eligible record that stands later in the
\* store and was posted more often than another eligible record.
C30_Witness ==
    /\ ret.op = "pick" /\ ret.idx >= 2 /\ ret.idx <= Len(Recs)
    /\ ret.idx \in Eligible(Recs, ret.cd, now)
    /\ \E j \in 1..(ret.idx - 1) :
          /\ j \in Eligible(Recs, ret.cd, now)
          /\ Recs[j].times_posted < Recs[ret.idx].times_posted

\* ------------------------------------------ claims on the rate-limit waits

\* The wait the claim names for a rate-limit error: from the reset time when
\* the error carries a parseable one, from the attempt index otherwise.
StatedWait(e) ==
    IF e.hdr.parse
    THEN LET until == IF e.hdr.delta > 0 THEN e.hdr.delta ELSE 0
         IN IF until + 2 < 600 THEN until + 2 ELSE 600
    ELSE IF 30 * (e.attempt + 1) < 180 THEN 30 * (e.attempt + 1) ELSE 180

TimesPosted == { Recs[i].times_posted : i \in 1..Len(Recs) }

\* C32: fair rotation: starting from never-posted records, when each pick is
\* followed by mark_posted of the record it returned, the marks have strictly
\* increasing timestamps and the time elapsed stays below the cooldown, no
\* record is posted a (k+1)-th time before every record was posted k times:
\* the largest and the smallest times_posted differ by at most 1.
C32_FairRotation ==
    \A a, b \in TimesPosted : a - b <= 1

\* C32 witness: a store of two or more records after five marks, picked by
\* the cooldown and then by the fallback: some record was posted three times.
C32_Witness ==
    /\ Len(Recs) >= 2
    /\ ret.op = "mark"
    /\ TotalMarks = 5
    /\ 3 \in TimesPosted

\* ------------------------------------------- claims on the ingest accounting

\* The candidates of a batch whose text is empty or whitespace only.
BlankCands(batch) == { i \in 1..Len(batch) : Strip(batch[i].text) = << >> }

\* Two candidates of one batch with the same normalized text.
TwinBatch ==
    /\ Len(ret.batch) = 2
    /\ BlankCands(ret.batch) = {}
    /\ normalize_text(ret.batch[1].text) = normalize_text(ret.batch[2].text)

\* No record held the normalized text of the first candidate before the call.
NewToStore ==
    \A i \in 1..ret.before :
        normalize_text(Recs[i].text) # normalize_text(ret.batch[1].text)

\* C33 as claimed: for every ingest call, added + duplicates + the number of
\* blank or whitespace-only candidates is the number of candidates, the record
\* count grows by exactly added, and two candidates of the same batch with
\* equal normalized text yield one added record and one duplicate.
C33_TwinsAddOne ==
    ret.op = "ingest" =>
        /\ ret.added + ret.duplicates + Cardinality(BlankCands(ret.batch)) = Len(ret.batch)
        /\ Len(Recs) = ret.before + ret.added
        /\ TwinBatch => (ret.added = 1 /\ ret.duplicates = 1)

\* C33 amended: for every ingest call, added + duplicates + the number of
\* blank or whitespace-only candidates is the number of candidates, the record
\* count grows by exactly added, and two candidates of the same batch with
\* equal normalized text yield one added record and one duplicate when no
\* record held that text before the call, and two duplicates when one did.
C33_IngestAccounting ==
    ret.op = "ingest" =>
        /\ ret.added + ret.duplicates + Cardinality(BlankCands(ret.batch)) = Len(ret.batch)
        /\ Len(Recs) = ret.before + ret.added
        /\ TwinBatch =>
               IF NewToStore THEN ret.added = 1 /\ ret.duplicates = 1
               ELSE ret.added = 0 /\ ret.duplicates = 2

\* C33 witness: a batch of two candidates that differ in case only went into a
\* store that held another record.
C33_Witness ==
    /\ ret.op = "ingest"
    /\ TwinBatch
    /\ NewToStore
    /\ ret.batch[1].text # ret.batch[2].text
    /\ ret.before = 1
    /\ Len(Recs) = 2

\* ------------------------------------------------ claims on the store file

\* What a new store instance obtains when it loads the file.
FreshRecords ==
    IF ~fs_store.exists THEN << >>
    ELSE LoadLoop(<< >>, EmptyMap, ReadRows(fs_store.lines)).records

\* C34: the persisted store matches the store in memory: after every
\* completed ingest or mark_posted, a new store instance that loads the file
\* obtains the same records in the same order with the same seven field
\* values, and to load the file and persist it again leaves the file as it is.
C34_FileMatchesMemory ==
    ret.op \in {"ingest", "mark"} =>
        LET fresh == FreshRecords
        IN /\ fresh = Recs
           /\ Table(fresh) = fs_store

\* C34 witness: mark_posted persisted a store of two records whose texts hold
\* a quote character and a delimiter or a line end, one of them posted twice.
C34_Witness ==
    /\ ret.op = "mark"
    /\ Len(Recs) = 2
    /\ \E i \in 1..2 : \E k \in 1..Len(Recs[i].text) : Recs[i].text[k] = "DQUOTE"
    /\ \E i \in 1..2 : \E k \in 1..Len(Recs[i].text) : Recs[i].text[k] = "NL"
    /\ \E i \in 1..2 : Recs[i].times_posted = 2

\* --------------------------------------------- claims on the posted state

\* In a list of records: times_posted is 0 exactly when last_posted_at is
\* empty, and no two records share an id.
PostedConsistent(recs) ==
    /\ \A i \in 1..Len(recs) :
          (recs[i].times_posted = 0) <=> (recs[i].last_posted_at = << >>)
    /\ \A i, j \in 1..Len(recs) : recs[i].id = recs[j].id => i = j

\* The store in memory and the store in the file are consistent.
PostedState ==
    /\ PostedConsistent(Recs)
    /\ fs_store.exists => PostedConsistent(ReadRows(fs_store.lines))

\* One store call: the times_posted of no record goes down.
NoDecrease ==
    LET old == StoreRecs(records[Main], loaded[Main], fs_store)
        new == StoreRecs(records'[Main], loaded'[Main], fs_store')
    IN \A i \in 1..Len(old) : \A j \in 1..Len(new) :
           new[j].id = old[i].id => new[j].times_posted >= old[i].times_posted

\* C35: in every state reached from an empty store by ingest and mark_posted,
\* each record has times_posted = 0 exactly when its last_posted_at is empty,
\* the ids of the records are distinct, and no times_posted ever decreases.
C35_PostedConsistency == []PostedState /\ [][NoDecrease]_vars

\* C35 witness: a new instance loaded a record posted twice and ingested a
\* second record, never posted.
C35_Witness ==
    /\ ret.op = "ingest" /\ ret.did_load /\ ret.added = 1
    /\ Len(Recs) = 2
    /\ Recs[1].times_posted = 2 /\ Recs[1].last_posted_at # << >>
    /\ Recs[2].times_posted = 0 /\ Recs[2].last_posted_at = << >>
    /\ Recs[1].id # Recs[2].id

\* ---------------------------------------- claims on repeated normalization

\* C36: output normalization is idempotent: for every raw engine output x, to
\* normalize the normalized text again gives the same text,
\* format(format(x)) = format(x).
C36_FormatIdempotent ==
    format_fact_out(n_out) = n_out

====
